---------------------------- MODULE Spec2Model ----------------------------
(***************************************************************************)
(* Model of the install-scripts HTTP API (src/api/app.py) and its rate     *)
(* limiter (src/api/rate_limiter.py).                                      *)
(*                                                                         *)
(* Text is a sequence of one-character strings; the characters that have   *)
(* no printable spelling are named: "ESC" (0x1b), "BEL" (0x07), "LF",      *)
(* "CR", "TAB", "BSL" (backslash), "DQ" (double quote), "DEL" (0x7f).      *)
(*                                                                         *)
(* A task report file is the raw text the code writes: the line            *)
(* STATUS:<status> followed by the content.  Files are opened, written     *)
(* and removed as on a POSIX file system: open(.., 'w') truncates at once  *)
(* and the buffered text reaches the file when the with-block closes it,   *)
(* a writer whose file is removed meanwhile writes to the unlinked file.   *)
(***************************************************************************)
EXTENDS Naturals, Integers, Sequences, FiniteSets, TLC

------------------------------------------------------------------------------
(* Characters and text helpers (Python str semantics).                       *)

Digits == {"0", "1", "2", "3", "4", "5", "6", "7", "8", "9"}

UpperLetters == {"A", "B", "C", "D", "E", "F", "G", "H", "I", "J", "K", "L", "M",
                 "N", "O", "P", "Q", "R", "S", "T", "U", "V", "W", "X", "Y", "Z"}

LowerLetters == {"a", "b", "c", "d", "e", "f", "g", "h", "i", "j", "k", "l", "m",
                 "n", "o", "p", "q", "r", "s", "t", "u", "v", "w", "x", "y", "z"}

Letters == UpperLetters \cup LowerLetters

\* str.strip() with no argument removes ASCII whitespace at both ends
Whitespace == {" ", "TAB", "LF", "CR"}

\* the least element of a non-empty set of numbers
Min(S) == CHOOSE k \in S : \A m \in S : k <= m

\* the index of the first element of s at or after i that is in set C, or Len(s)+1
FirstIn(s, i, C) ==
    LET at == {k \in i..Len(s) : s[k] \in C}
    IN  IF at = {} THEN Len(s) + 1 ELSE Min(at)

\* the index of the first element of s at or after i that is not in set C, or Len(s)+1
FirstNotIn(s, i, C) ==
    LET at == {k \in i..Len(s) : s[k] \notin C}
    IN  IF at = {} THEN Len(s) + 1 ELSE Min(at)

\* s[i..] (Python s[i-1:])
Drop(s, i) == SubSeq(s, i, Len(s))

\* str.startswith
StartsWith(s, p) == Len(s) >= Len(p) /\ SubSeq(s, 1, Len(p)) = p

\* str.replace(p, '') : every non-overlapping occurrence of p removed, left to
\* right, from s[i..]
RECURSIVE RemoveFrom(_, _, _)
RemoveFrom(s, i, p) ==
    IF i > Len(s) THEN <<>>
    ELSE IF i + Len(p) - 1 <= Len(s) /\ SubSeq(s, i, i + Len(p) - 1) = p
    THEN RemoveFrom(s, i + Len(p), p)
    ELSE <<s[i]>> \o RemoveFrom(s, i + 1, p)

RemoveAll(s, p) == CHOOSE r \in { RemoveFrom(t, 1, p) : t \in {s} } : TRUE

\* str.strip(): s up to its last character that is not whitespace
RStrip(s) ==
    LET kept == {k \in 1..Len(s) : s[k] \notin Whitespace}
    IN  IF kept = {} THEN <<>>
        ELSE SubSeq(s, 1, CHOOSE k \in kept : \A m \in kept : m <= k)

\* (the text is bound once, as a value, whatever expression it is given as)
Strip(s) ==
    CHOOSE r \in { RStrip(Drop(t, FirstNotIn(t, 1, Whitespace))) : t \in {s} } : TRUE

\* str(n) for a natural number
RECURSIVE DecStr(_)
DecStr(n) ==
    LET d == <<"0", "1", "2", "3", "4", "5", "6", "7", "8", "9">>[(n % 10) + 1]
    IN  IF n < 10 THEN <<d>> ELSE DecStr(n \div 10) \o <<d>>

\* Reading a file opened in text mode (newline=None): "\r\n" and a lone "\r"
\* both arrive as "\n".
\* (the text and the indices kept are bound once, as values)
UniversalNewlines(s) ==
    LET \* the line feed of a CR LF pair is dropped, every CR becomes a line feed
        Kept(t) == SelectSeq([i \in 1..Len(t) |-> i],
                             LAMBDA i : ~(t[i] = "LF" /\ i > 1 /\ t[i - 1] = "CR"))
    IN  CHOOSE r \in UNION {
            { [k \in 1..Len(kept) |-> IF t[kept[k]] = "CR" THEN "LF" ELSE t[kept[k]]]
              : kept \in {Kept(t)} }
            : t \in {s} } : TRUE

------------------------------------------------------------------------------
(* Program constants of src/api/app.py.                                       *)

TASK_STATUS_PROCESSING == <<"p", "r", "o", "c", "e", "s", "s", "i", "n", "g">>

TASK_STATUS_COMPLETED == <<"c", "o", "m", "p", "l", "e", "t", "e", "d">>

TASK_STATUS_ERROR == <<"e", "r", "r", "o", "r">>

SSH_DEFAULT_PORT == 22

StatusPrefix == <<"S", "T", "A", "T", "U", "S", ":">>

\* Python's None: a value that is no text (its element is no character)
None == <<"None">>

------------------------------------------------------------------------------
(* generate_task_id: the text that is hashed.  The MD5 digest is taken to be *)
(* injective, so a task id is identified with its pre-hash text.             *)

generate_task_id(script_name, server_ip, server_root_password, additional) ==
    script_name \o <<":">> \o server_ip \o <<":">> \o server_root_password
        \o <<":">> \o additional

------------------------------------------------------------------------------
(* strip_ansi_codes: re.sub of the pattern                                    *)
(*   ESC ( \[[0-9;]*[A-Za-z] | \][^BEL]*BEL | \][^ESC]*ESC\\                  *)
(*       | [PX^_][^ESC]*ESC\\ | [NOc] )                                       *)
(* by the empty string.  AnsiMatchEnd(s, i) is the index of the last         *)
(* character of the match that starts at s[i], or 0 when none starts there.  *)
(* The alternatives are tried in the pattern's order; each has at most one   *)
(* way to match at a given start, so backtracking adds nothing.              *)

\* \[[0-9;]*[A-Za-z] after the ESC at i
CsiEnd(s, i) ==
    LET j == FirstNotIn(s, i + 2, Digits \cup {";"})
    IN  IF j <= Len(s) /\ s[j] \in Letters THEN j ELSE 0

\* \][^\x07]*\x07 after the ESC at i
OscBelEnd(s, i) ==
    LET j == FirstIn(s, i + 2, {"BEL"})
    IN  IF j <= Len(s) THEN j ELSE 0

\* [^\x1b]*\x1b\\ from index k on (the tail of the ST-terminated alternatives)
StEnd(s, k) ==
    LET j == FirstIn(s, k, {"ESC"})
    IN  IF j + 1 <= Len(s) /\ s[j + 1] = "BSL" THEN j + 1 ELSE 0

AnsiMatchEnd(s, i) ==
    IF s[i] # "ESC" \/ i + 1 > Len(s) THEN 0
    ELSE IF s[i + 1] = "[" THEN CsiEnd(s, i)
    ELSE IF s[i + 1] = "]"
         THEN IF OscBelEnd(s, i) # 0 THEN OscBelEnd(s, i) ELSE StEnd(s, i + 2)
    ELSE IF s[i + 1] \in {"P", "X", "^", "_"} THEN StEnd(s, i + 2)
    ELSE IF s[i + 1] \in {"N", "O", "c"} THEN i + 1
    ELSE 0

\* a variant of AnsiSub that keeps nothing but ASCII letters, digits and spaces
AsciiWordsOnly(s, i) ==
    SelectSeq(SubSeq(s, i, Len(s)), LAMBDA ch : ch \in Letters \cup Digits \cup {" "})

\* the text from index i on with every match removed; a match can only start
\* at an ESC, and the scan resumes after a match or after an ESC that starts none
RECURSIVE AnsiSub(_, _)
AnsiSub(s, i) ==
    LET j == FirstIn(s, i, {"ESC"})
    IN  IF j > Len(s) THEN SubSeq(s, i, Len(s))
        ELSE LET e == AnsiMatchEnd(s, j)
             IN  IF e # 0 THEN SubSeq(s, i, j - 1) \o AnsiSub(s, e + 1)
                 ELSE SubSeq(s, i, j) \o AnsiSub(s, j + 1)

\* "if not text: return text" returns None and '' as they are
strip_ansi_codes(text) ==
    IF text = None \/ text = <<>> THEN text
    ELSE CHOOSE r \in { AnsiSub(t, 1) : t \in {text} } : TRUE

------------------------------------------------------------------------------
(* The task report file.                                                      *)

\* the file does not exist: a value that is no text
NoFile == <<"NoFile">>

\* the text write_task_status puts into the file
StatusFileText(status, content) ==
    LET clean_content == IF content # <<>> /\ content # None
                         THEN strip_ansi_codes(content) ELSE <<>>
    IN  StatusPrefix \o status \o <<"LF">> \o clean_content

\* the text append_task_content adds to the file
AppendText(content) ==
    IF content # <<>> /\ content # None THEN strip_ansi_codes(content) ELSE <<>>

\* read_task_status on the file's raw text (NoFile when the file does not exist):
\* a record [status, content], both None when there is no file or no status line
read_task_status(raw) ==
    IF raw = NoFile THEN [status |-> None, content |-> None]
    ELSE CHOOSE r \in
           { LET nl   == FirstIn(text, 1, {"LF"})
             IN  IF StartsWith(SubSeq(text, 1, nl - 1), StatusPrefix)
                 THEN [status  |-> Strip(RemoveAll(SubSeq(text, 1, nl - 1), StatusPrefix)),
                       content |-> IF nl <= Len(text) THEN Drop(text, nl + 1) ELSE <<>>]
                 ELSE [status |-> None, content |-> None]
             : text \in {UniversalNewlines(raw)} } : TRUE

\* A buffered write of data at offset 0 through a handle opened with 'w': it
\* overwrites the first Len(data) characters of whatever the file holds by then.
WriteAtStart(cur, data) ==
    IF Len(cur) > Len(data) THEN data \o Drop(cur, Len(data) + 1) ELSE data

------------------------------------------------------------------------------
(* install(): request validation (src/api/app.py lines 710-741).              *)

\* str.isalnum() on ASCII text: non-empty and every character a letter or digit
IsAlnum(s) == s # <<>> /\ \A i \in 1..Len(s) : s[i] \in Letters \cup Digits

\* a variant of ScriptNameValid that looks for one allowed character
ScriptNameSearch(script_name) ==
    \E i \in 1..Len(script_name) : script_name[i] \in Letters \cup Digits \cup {"-", "_"}

\* script_name.replace('-', '').replace('_', '').isalnum()
ScriptNameValid(script_name) ==
    IsAlnum(RemoveAll(RemoveAll(script_name, <<"-">>), <<"_">>))

\* \d{1,3} at index i: the indices at which a run of 1..3 digits from i can end
DigitRunEnds(s, i) ==
    {j \in (i + 1)..(i + 3) : j <= Len(s) + 1 /\ \A k \in i..(j - 1) : s[k] \in Digits}

\* (\d{1,3}\.){n}\d{1,3}$ matched from index i; '$' matches at the end of the
\* text and also just before a final line feed
RECURSIVE IpMatchFrom(_, _, _)
IpMatchFrom(s, i, n) ==
    \E j \in DigitRunEnds(s, i) :
        IF n = 0
        THEN j = Len(s) + 1 \/ (j = Len(s) /\ s[j] = "LF")
        ELSE j <= Len(s) /\ s[j] = "." /\ IpMatchFrom(s, j + 1, n - 1)

\* re.compile(r'^(\d{1,3}\.){3}\d{1,3}$').match(server_ip)
IpPatternMatch(server_ip) == IpMatchFrom(server_ip, 1, 3)

\* the request fields that "not data.get(field)" finds missing
MissingFields(data) ==
    {f \in {"script_name", "server_ip", "server_root_password"} :
        data[f] = None \/ data[f] = <<>>}

------------------------------------------------------------------------------
(* Messages the code writes into task reports.                                *)

\* f"Starting installation of '{script_name}' on {server_ip}...\n"
StartingMsg(script_name, server_ip) ==
    <<"S", "t", "a", "r", "t", "i", "n", "g", " ", "i", "n", "s", "t", "a", "l", "l",
      "a", "t", "i", "o", "n", " ", "o", "f", " ", "'">> \o script_name
        \o <<"'", " ", "o", "n", " ">> \o server_ip \o <<".", ".", ".", "LF">>

\* f"Connecting to {server_ip}:{port} via SSH...\n"
ConnectingMsg(server_ip, port) ==
    <<"C", "o", "n", "n", "e", "c", "t", "i", "n", "g", " ", "t", "o", " ">>
        \o server_ip \o <<":">> \o DecStr(port)
        \o <<" ", "v", "i", "a", " ", "S", "S", "H", ".", ".", ".", "LF">>

\* f"Executing script: {script_name}\n"
ExecutingMsg(script_name) ==
    <<"E", "x", "e", "c", "u", "t", "i", "n", "g", " ", "s", "c", "r", "i", "p", "t",
      ":", " ">> \o script_name \o <<"LF">>

\* f'\nScript exited with status {exit_status}'
ExitedMsg(exit_status) ==
    <<"LF", "S", "c", "r", "i", "p", "t", " ", "e", "x", "i", "t", "e", "d", " ", "w",
      "i", "t", "h", " ", "s", "t", "a", "t", "u", "s", " ">> \o DecStr(exit_status)

\* the error_msg of each except clause of execute_script_via_ssh_async;
\* text is str(e)
ExceptMsg(kind, server_ip, text) ==
    CASE kind = "AuthenticationException" ->
           <<"LF", "S", "S", "H", " ", "a", "u", "t", "h", "e", "n", "t", "i", "c", "a",
             "t", "i", "o", "n", " ", "f", "a", "i", "l", "e", "d", ".", " ", "P", "l",
             "e", "a", "s", "e", " ", "c", "h", "e", "c", "k", " ", "t", "h", "e", " ",
             "p", "a", "s", "s", "w", "o", "r", "d", ".">>
      [] kind = "SSHException" ->
           <<"LF", "S", "S", "H", " ", "c", "o", "n", "n", "e", "c", "t", "i", "o", "n",
             " ", "e", "r", "r", "o", "r", ":", " ">> \o text
      [] kind = "TimeoutError" ->
           <<"LF", "C", "o", "n", "n", "e", "c", "t", "i", "o", "n", " ", "t", "o", " ">>
             \o server_ip \o <<" ", "t", "i", "m", "e", "d", " ", "o", "u", "t">>
      [] OTHER ->
           <<"LF", "U", "n", "e", "x", "p", "e", "c", "t", "e", "d", " ", "e", "r", "r",
             "o", "r", ":", " ">> \o text

------------------------------------------------------------------------------
(* Bounds and inputs of the task orchestrator model.                          *)

\* request handler threads of the server
NThreads == 2

\* calls of /api/install and of /api/status/<task_id> in one behaviour
MaxInstalls == 2

MaxPolls == 2

\* calls of both endpoints together in one behaviour
MaxCalls == 3

\* lines the remote command prints before its output ends
MaxChunks == 1

Threads == 1..NThreads

\* request.get_json() of a body posted to /api/install: json is FALSE when the body
\* is not JSON (get_json gives None); a field the body does not have is None
Request(script_name, server_ip, server_root_password, additional) ==
    [json |-> TRUE, script_name |-> script_name, server_ip |-> server_ip,
     server_root_password |-> server_root_password, additional |-> additional]

NoRequest == Request(<<>>, <<>>, <<>>, <<>>)

NotJson == [Request(None, None, None, None) EXCEPT !.json = FALSE]

ValidRequests ==
    { Request(<<"d">>, <<"1", ".", "2", ".", "3", ".", "4">>, <<"p">>, <<>>) }

InvalidRequests ==
    { Request(<<"d", ";">>, <<"1", ".", "2", ".", "3", ".", "4">>, <<"p">>, <<>>),
      Request(<<"d">>, <<"1", ".", "2", ".", "x">>, <<"p">>, <<>>),
      Request(<<"d">>, <<"1", ".", "2", ".", "3", ".", "4">>, <<>>, <<>>),
      Request(<<>>, <<"1", ".", "2", ".", "3", ".", "4">>, <<"p">>, <<>>),
      Request(<<"d">>, None, <<"p">>, <<>>),
      Request(<<"d", " ">>, <<"1", ".", "2", ".", "3", ".", "4">>, <<"p">>, <<>>),
      Request(<<"d">>, <<"1", ".", "2", ".", "3", ".", "4", ".", "5">>, <<"p">>, <<>>),
      NotJson }

\* bodies whose password and additional parameters contain the separator of
\* generate_task_id
ColonRequests ==
    { Request(<<"d">>, <<"1", ".", "2", ".", "3", ".", "4">>, <<"a", ":", "b">>, <<"c">>),
      Request(<<"d">>, <<"1", ".", "2", ".", "3", ".", "4">>, <<"a">>, <<"b", ":", "c">>) }

\* the bodies clients post to /api/install
\* hosts a client can name: dotted quads with fields in and out of 0..255,
\* with a character before or after them, with too few or too many fields
Hosts ==
    { <<"0", ".", "2", ".", "3", ".", "2", "5", "5">>,
      <<"2", "5", "6", ".", "2", ".", "3", ".", "4">>,
      <<"1", ".", "2", ".", "3", ".", "9", "9", "9">>,
      <<"1", ".", "2", ".", "3", ".", "4", "LF">>,
      <<"1", ".", "2", ".", "3", ".", "4", " ">>,
      <<" ", "1", ".", "2", ".", "3", ".", "4">>,
      <<"1", ".", "2", ".", "3", ".", "4", "LF", "LF">>,
      <<"1", ".", "2", ".", "3">>,
      <<"1", ".", "2", ".", "3", ".", "4", ".", "5">>,
      <<"1", ".", ".", "3", ".", "4">>,
      <<"1", "2", "3", "4", ".", "2", ".", "3", ".", "4">>,
      <<"1", ".", "2", ".", "3", ".", "x">> }

HostRequests == { Request(<<"d">>, host, <<"p">>, <<>>) : host \in Hosts }

Requests == ValidRequests \cup InvalidRequests \cup ColonRequests \cup HostRequests

TaskIdOf(data) ==
    generate_task_id(data.script_name, data.server_ip, data.server_root_password,
                     data.additional)

AllTaskIds == { TaskIdOf(data) : data \in ValidRequests \cup ColonRequests }

\* lines stdout.readline() returns (a pty ends its lines with CR LF)
Chunks == { <<"o", "k", "CR", "LF">>, <<"ESC", "[", "0", "m", "x", "LF">> }

\* what stderr.read() returns
ErrOutputs == { <<>>, <<"e">> }

\* what recv_exit_status() returns
ExitStatuses == {0, 1}

\* str(e) of an exception
ExcText == <<"x">>

\* the exceptions ssh_client.connect, exec_command and the stream reads raise
ConnectFailures == {"AuthenticationException", "SSHException", "TimeoutError", "Exception"}

ExecFailures == {"SSHException", "Exception"}

ReadFailures == {"TimeoutError", "Exception"}

\* the outputs of a remote command: up to MaxChunks lines
RECURSIVE Outputs(_)
Outputs(n) ==
    IF n = 0 THEN {<<>>}
    ELSE Outputs(n - 1) \cup
         {Append(ls, line) : ls \in {o \in Outputs(n - 1) : Len(o) = n - 1}, line \in Chunks}

\* how a session with the remote host goes: what connect, exec_command and the
\* reads of the streams do.  The host answers every job of a behaviour alike.
Session(connect, exec, lines, read, error_output, exit_status) ==
    [connect |-> connect, exec |-> exec, lines |-> lines, read |-> read,
     error_output |-> error_output, exit_status |-> exit_status]

Sessions ==
    { Session(k, "ok", <<>>, "ok", <<>>, 0) : k \in ConnectFailures }
    \cup { Session("ok", k, <<>>, "ok", <<>>, 0) : k \in ExecFailures }
    \cup { Session("ok", "ok", ls, k, <<>>, 0) : ls \in Outputs(MaxChunks), k \in ReadFailures }
    \cup { Session("ok", "ok", ls, "ok", e, x) :
             ls \in Outputs(MaxChunks), e \in ErrOutputs, x \in ExitStatuses }

IsTerminal(status) == status = TASK_STATUS_COMPLETED \/ status = TASK_STATUS_ERROR

------------------------------------------------------------------------------
(* State.                                                                     *)

VARIABLES
    SSH_AVAILABLE,  \* whether paramiko could be imported
    files,          \* TASKS_DIR: task id -> raw text of <task_id>.txt, or NoFile
    handler,        \* the request handler threads: what each is executing
    worker,         \* the threads install() started, in the order of their start
    remote,         \* environment: the session the remote host gives a job
    pool,           \* environment: the bodies clients post to /api/install
    nInstalls,      \* calls of install() so far
    nPolls,         \* calls of get_task_status() and of the other GET endpoints so far
    consumed,       \* history: task id -> "polling" while a poll that read its
                    \*   terminal record runs with nothing else running on the
                    \*   task, "yes" once that poll has returned, "no" otherwise
                    \*   and from the next install on
    readers         \* history: task id -> polls that read the terminal record
                    \*   that is now (or was last) in the file

\* the rate limiter (src/api/rate_limiter.py)
VARIABLES
    now,            \* the clock, in seconds: time.time() and datetime.now()
    limiter,        \* the RateLimiter object: enabled, max_requests, time_window
    request_log,    \* table request_log, in the order of insertion
    blocked_ips,    \* table blocked_ips: the set of its rows
    caller,         \* the threads calling record_request: what each is executing
    reply,          \* what the last call that returned has returned
    nRecords,       \* calls of record_request so far
    nAdmin,         \* calls of the other methods so far
    nTicks,         \* steps of the clock so far
    admitted        \* history: the (ip, timestamp) of the calls of record_request
                    \*   of an enabled limiter that returned allowed, in the
                    \*   order of their return

limiterVars ==
    <<now, limiter, request_log, blocked_ips, caller, reply, nRecords, nAdmin, nTicks,
      admitted>>

\* strip_ansi_codes called on its own
VARIABLES
    text,           \* the argument of the first call: a text or None
    sanitized       \* what the calls returned, each call being given what the
                    \*   call before it returned

sanitizerVars == <<text, sanitized>>

\* the configuration of the server
VARIABLES
    API_KEY         \* os.environ.get('API_KEY', ''): the key requests must give,
                    \*   the empty text when none is required

\* the command line of the remote shell, built on its own
VARIABLES
    additional_param,   \* the 'additional' of the request: a text
    command             \* the command built from it, None before it is built

\* the desktop client (src/gui/main.py): one SSHWorker and the window that
\* started it
VARIABLES
    gui,            \* the SSHWorker (pc, _stop_requested, _ssh_client, the lines
                    \*   it has read), the main thread inside on_stop_clicked
                    \*   (stopper), and the window (worker, stop_button, the
                    \*   finished signals its slot has handled)
    signals,        \* the signals the SSHWorker has emitted, in their order
    script          \* environment: what the host does with the connection and
                    \*   the script

guiVars == <<gui, signals, script>>

vars == <<SSH_AVAILABLE, files, handler, worker, remote, pool, nInstalls, nPolls,
          consumed, readers, limiterVars, sanitizerVars, API_KEY, additional_param,
          command, guiVars>>

\* no call of strip_ansi_codes on its own is modelled
SanitizerIdle ==
    /\ text = <<>>
    /\ sanitized = <<>>

\* a response: the HTTP code, the message ('message' or 'error', "" when there is
\* none) and the JSON fields task_id, status and result (None when absent)
Response(code, task_id, message, status, result) ==
    [code |-> code, task_id |-> task_id, message |-> message, status |-> status,
     result |-> result]

NoResponse == Response(0, None, "", None, None)

\* fh: the thread's handle on the task file between open(.., 'w') and the close
\* that writes its buffer: "none", "open", or "unlinked" once the file was removed
IdleHandler ==
    [op |-> "idle", pc |-> "idle", req |-> NoRequest, task_id |-> None,
     fh |-> "none", resp |-> NoResponse]

\* the handler has its response and returns it (an install() still has its
\* request)
Returning(op, task_id, resp) ==
    [op |-> op, pc |-> "return", req |-> NoRequest, task_id |-> task_id,
     fh |-> "none", resp |-> resp]

\* exc: the exception raised in the try block, "none" while there is none
NewWorker(task_id, req) ==
    [task_id |-> task_id, req |-> req, pc |-> "connect", ssh_client |-> "none",
     output_buffer |-> <<>>, exc |-> "none", exit_status |-> 0,
     status |-> None, content |-> None, fh |-> "none"]

\* a variant of EndedWorker that leaves the client as it was created
LeakedWorker(task_id, req) == [NewWorker(task_id, req) EXCEPT !.pc = "done"]

\* a thread that has ended: its locals are gone
EndedWorker(task_id, req) ==
    [NewWorker(task_id, req) EXCEPT !.pc = "done", !.ssh_client = "closed"]

\* every install() starts at most one thread
WorkerIds == 1..MaxInstalls

Workers == 1..Len(worker)

LiveWorkers(task_id) ==
    {w \in Workers : worker[w].task_id = task_id /\ worker[w].pc # "done"}

\* a thread has only steps of its own left: the return of a response, the end
\* of a job's thread.  No other thread can observe or change such a step, so it
\* is taken before any other thread moves.
LocalStepPending ==
    \/ \E t \in Threads : handler[t].pc = "return"
    \/ \E w \in Workers : worker[w].pc = "close"

\* the server hands a request to an idle thread of its pool: the first one
Accepts(t) ==
    /\ ~LocalStepPending
    /\ handler[t].op = "idle"
    /\ \A u \in Threads : u < t => handler[u].op # "idle"
    /\ nInstalls + nPolls < MaxCalls

\* the task ids of the bodies that pass the checks of install()
PoolIds ==
    { TaskIdOf(data) :
        data \in {d \in pool : d.json /\ \E v \in ValidRequests \cup ColonRequests
                                                    \cup HostRequests :
                                           TaskIdOf(d) = TaskIdOf(v)} }

\* the task ids the behaviour deals with
TaskIds == DOMAIN files

InitServer ==
    /\ files = [id \in PoolIds |-> NoFile]
    /\ handler = [t \in Threads |-> IdleHandler]
    /\ worker = <<>>
    /\ nInstalls = 0
    /\ nPolls = 0
    /\ consumed = [id \in PoolIds |-> "no"]
    /\ readers = [id \in PoolIds |-> 0]

\* threads that call the rate limiter at once
NCallers == 2

Callers == 1..NCallers

\* the sources of requests
Ips == {"a", "b"}

\* a result: of record_request (allowed, requests_count, reason), of is_blocked
\* (ok: is_blocked, reason), of block_ip and unblock_ip (ok), of
\* get_blocked_ips (rows: the rows returned)
Reply(op, ip, ok, count, reason, rows) ==
    [op |-> op, ip |-> ip, ok |-> ok, count |-> count, reason |-> reason, rows |-> rows]

NoReply == Reply("none", "", FALSE, 0, None, {})

IdleCaller == [pc |-> "idle", ip |-> "", current_time |-> 0]

\* the tables as _init_database creates them (lines 59-99), no call made
InitTables ==
    /\ now = 0
    /\ request_log = <<>>
    /\ blocked_ips = {}
    /\ caller = [c \in Callers |-> IdleCaller]
    /\ reply = NoReply
    /\ nRecords = 0
    /\ nAdmin = 0
    /\ nTicks = 0
    /\ admitted = <<>>

\* RateLimiter(enabled=False): no call of it is modelled with the orchestrator
LimiterOff ==
    /\ limiter = [enabled |-> FALSE, max_requests |-> 0, time_window |-> 0]
    /\ InitTables

\* API_KEY is not set: require_api_key lets every request through
AuthOff == API_KEY = <<>>

\* no desktop client runs
GuiIdle ==
    /\ gui = None
    /\ signals = <<>>
    /\ script = None

\* no command is built on its own
CommandIdle ==
    /\ additional_param = <<>>
    /\ command = None

\* the server under concurrent requests that pass validation
Init ==
    /\ pool = ValidRequests
    /\ SSH_AVAILABLE \in BOOLEAN
    /\ remote \in Sessions
    /\ InitServer
    /\ LimiterOff
    /\ SanitizerIdle
    /\ AuthOff
    /\ CommandIdle
    /\ GuiIdle

\* what the steps of the task orchestrator leave as it is
env == <<SSH_AVAILABLE, remote, pool, limiterVars, sanitizerVars, API_KEY,
         additional_param, command, guiVars>>

------------------------------------------------------------------------------
(* File operations on the tasks directory.                                    *)

\* the text of <task_id>.txt, NoFile for a task id that never had a file
FileOf(fs, task_id) == IF task_id \in DOMAIN fs THEN fs[task_id] ELSE NoFile

\* open(task_file, 'w'): creates the file or truncates it
Truncated(fs, task_id) == [fs EXCEPT ![task_id] = <<>>]

\* closing a handle opened with 'w' writes the buffered text at offset 0; a
\* handle whose file was removed writes to a file nobody can open
Flushed(fs, task_id, fh, data) ==
    IF fh = "open" THEN [fs EXCEPT ![task_id] = WriteAtStart(fs[task_id], data)]
    ELSE fs

\* a variant of Appended that opens the file with 'w'
Overwritten(fs, task_id, content) == [fs EXCEPT ![task_id] = AppendText(content)]

\* append_task_content: open(task_file, 'a') creates the file when it is missing
Appended(fs, task_id, content) ==
    [fs EXCEPT ![task_id] =
        (IF fs[task_id] = NoFile THEN <<>> ELSE fs[task_id]) \o AppendText(content)]

\* a variant of Removed that leaves the file in place
NotRemoved(fs, task_id) == fs

\* os.remove(task_file)
Removed(fs, task_id) == [fs EXCEPT ![task_id] = NoFile]

\* os.remove: the handles open on the file keep the removed file
Unlinked(threads, task_id) ==
    [x \in DOMAIN threads |->
        IF threads[x].task_id = task_id /\ threads[x].fh = "open"
        THEN [threads[x] EXCEPT !.fh = "unlinked"] ELSE threads[x]]

------------------------------------------------------------------------------
(* install(): POST /api/install (src/api/app.py lines 670-779).               *)

\* the response of install() to a body it rejects, NoResponse when it accepts it
InstallRejection(data) ==
    IF ~data.json THEN Response(400, None, "Request body must be JSON", None, None)
    ELSE IF MissingFields(data) # {}
         THEN Response(400, None, "Missing required fields", None, None)
    ELSE IF ~ScriptNameValid(data.script_name)
         THEN Response(400, None, "Invalid script_name format", None, None)
    ELSE IF ~IpPatternMatch(data.server_ip)
         THEN Response(400, None, "Invalid server_ip format", None, None)
    ELSE NoResponse

\* a variant of AlreadyInProgress that never finds the task in progress
NeverInProgress(existing_status) == FALSE

\* a variant of AlreadyInProgress that finds every existing record in progress
AnyRecord(existing_status) == existing_status # None

\* line 749: the task exists and is still processing
AlreadyInProgress(existing_status) == existing_status = TASK_STATUS_PROCESSING

\* lines 691-753: the checks of the request, then the check that the task
\* exists and is still processing
InstallBody(t, data) ==
    /\ IF ~SSH_AVAILABLE
       THEN /\ handler' = [handler EXCEPT ![t] =
                 [Returning("install", None,
                     Response(503, None, "SSH library (paramiko) is not installed", None, None))
                  EXCEPT !.req = data]]
            /\ UNCHANGED consumed
       ELSE IF InstallRejection(data) # NoResponse
       THEN /\ handler' = [handler EXCEPT ![t] =
                 [Returning("install", None, InstallRejection(data)) EXCEPT !.req = data]]
            /\ UNCHANGED consumed
       ELSE LET task_id == TaskIdOf(data)
                existing_status == read_task_status(FileOf(files, task_id)).status
            IN  /\ handler' = [handler EXCEPT ![t] =
                      IF AlreadyInProgress(existing_status)
                      THEN [Returning("install", task_id,
                              Response(200, task_id, "Task already in progress", None, None))
                            EXCEPT !.req = data]
                      ELSE [op |-> "install", pc |-> "write_open", req |-> data,
                            task_id |-> task_id, fh |-> "none", resp |-> NoResponse]]
                /\ consumed' = [consumed EXCEPT ![task_id] = "no"]
    /\ UNCHANGED <<files, worker, nPolls, readers>>

\* install() of a server that requires no key and has its limiter disabled: the
\* decorators (lines 671-672) call it at once
InstallStart(t, data) ==
    /\ Accepts(t)
    /\ nInstalls < MaxInstalls
    /\ data \in pool
    /\ nInstalls' = nInstalls + 1
    /\ InstallBody(t, data)
    /\ UNCHANGED env

\* line 756, write_task_status line 172: open(task_file, 'w')
InstallWriteOpen(t) ==
    /\ handler[t].op = "install"
    /\ handler[t].pc = "write_open"
    /\ ~LocalStepPending
    /\ files' = Truncated(files, handler[t].task_id)
    /\ handler' = [handler EXCEPT ![t].pc = "write_close", ![t].fh = "open"]
    /\ UNCHANGED <<env, worker, nInstalls, nPolls, consumed, readers>>

\* line 756, write_task_status lines 173-174: the status line and the content;
\* lines 758-771: thread.start() and the response
InstallWriteClose(t) ==
    /\ handler[t].op = "install"
    /\ handler[t].pc = "write_close"
    /\ ~LocalStepPending
    /\ files' = Flushed(files, handler[t].task_id, handler[t].fh,
                   StatusFileText(TASK_STATUS_PROCESSING,
                       StartingMsg(handler[t].req.script_name, handler[t].req.server_ip)))
    /\ worker' = Append(worker, NewWorker(handler[t].task_id, handler[t].req))
    /\ handler' = [handler EXCEPT ![t] =
          [Returning("install", handler[t].task_id,
              Response(200, handler[t].task_id, "Installation started", None, None))
           EXCEPT !.req = handler[t].req]]
    /\ UNCHANGED <<env, nInstalls, nPolls, consumed, readers>>

------------------------------------------------------------------------------
(* get_task_status(): GET /api/status/<task_id> (lines 782-848).  The check   *)
(* of the id's format (32 hex digits) concerns the digest and is not          *)
(* modelled: polls name well-formed ids.                                      *)

\* the response dictionary get_task_status builds from what it read (lines 825-833)
StatusResponse(status, content) ==
    Response(200, None, "", status,
             IF content # <<>> THEN strip_ansi_codes(content) ELSE content)

\* no worker and no other request is running on the task
Quiescent(t, task_id) ==
    /\ LiveWorkers(task_id) = {}
    /\ \A u \in Threads \ {t} : handler[u].task_id # task_id

\* lines 814-836: read the report, answer 404 or build the response
StatusBody(t, task_id) ==
    /\ task_id \in TaskIds
    /\ \E r \in {read_task_status(files[task_id])} :
           /\ handler' = [handler EXCEPT ![t] =
                 IF r.status = None
                 THEN Returning("status", task_id,
                        Response(404, None, "Task not found", None, None))
                 ELSE IF IsTerminal(r.status)
                 THEN [op |-> "status", pc |-> "delete_exists", req |-> NoRequest,
                       task_id |-> task_id, fh |-> "none",
                       resp |-> StatusResponse(r.status, r.content)]
                 ELSE Returning("status", task_id, StatusResponse(r.status, r.content))]
           /\ readers' = [readers EXCEPT ![task_id] =
                 IF r.status # None /\ IsTerminal(r.status) THEN @ + 1 ELSE @]
           /\ consumed' = [consumed EXCEPT ![task_id] =
                 IF r.status # None /\ IsTerminal(r.status) /\ Quiescent(t, task_id)
                 THEN "polling"
                 ELSE IF r.status = None /\ @ = "yes" THEN "yes" ELSE "no"]
    /\ UNCHANGED <<env, files, worker, nInstalls>>

\* GET /api/status/<task_id> arrives
StatusStart(t, task_id) ==
    /\ Accepts(t)
    /\ nPolls < MaxPolls
    /\ nPolls' = nPolls + 1
    /\ StatusBody(t, task_id)

\* delete_task_file line 230: os.path.exists(task_file)
StatusDeleteExists(t) ==
    /\ handler[t].op = "status"
    /\ handler[t].pc = "delete_exists"
    /\ ~LocalStepPending
    /\ handler' = [handler EXCEPT ![t].pc =
          IF files[handler[t].task_id] # NoFile THEN "delete_remove" ELSE "return"]
    /\ UNCHANGED <<env, files, worker, nInstalls, nPolls, consumed, readers>>

\* delete_task_file line 231: os.remove(task_file); FileNotFoundError is caught
\* by "except Exception" (lines 841-848)
StatusDeleteRemove(t) ==
    /\ handler[t].op = "status"
    /\ handler[t].pc = "delete_remove"
    /\ ~LocalStepPending
    /\ IF files[handler[t].task_id] = NoFile
       THEN /\ handler' = [handler EXCEPT ![t] = Returning("status", handler[t].task_id,
                             Response(500, None, "Unexpected error", None, None))]
            /\ UNCHANGED <<files, worker>>
       ELSE /\ files' = Removed(files, handler[t].task_id)
            /\ handler' = [Unlinked(handler, handler[t].task_id) EXCEPT ![t].pc = "return"]
            /\ worker' = Unlinked(worker, handler[t].task_id)
    /\ UNCHANGED <<env, nInstalls, nPolls, consumed, readers>>

\* the response leaves the server (return jsonify(..))
HandlerReturn(t) ==
    /\ handler[t].pc = "return"
    /\ handler' = [handler EXCEPT ![t] = IdleHandler]
    /\ consumed' =
          IF handler[t].op = "status" /\ consumed[handler[t].task_id] = "polling"
          THEN [consumed EXCEPT ![handler[t].task_id] = "yes"]
          ELSE consumed
    /\ UNCHANGED <<env, files, worker, nInstalls, nPolls, readers>>

------------------------------------------------------------------------------
(* execute_script_via_ssh_async(): the background thread (lines 562-667).     *)
(* install() answers 503 before it starts a thread when SSH_AVAILABLE is      *)
(* false, so the thread's own check of it (lines 577-579) never fails.        *)
(* Blocking calls on the remote session (connect, exec_command, readline,     *)
(* read, recv_exit_status) touch no shared state; each is taken together      *)
(* with the file operation next to it.                                        *)

\* an exception inside the try block: control goes to the except clauses
Raised(w, kind) == [worker[w] EXCEPT !.pc = "finalize", !.exc = kind]

\* lines 584-599: create the client, report "Connecting", connect
WorkerConnect(w) ==
    /\ w \in Workers
    /\ worker[w].pc = "connect"
    /\ ~LocalStepPending
    /\ files' = Appended(files, worker[w].task_id,
                         ConnectingMsg(worker[w].req.server_ip, SSH_DEFAULT_PORT))
    /\ worker' = [worker EXCEPT ![w] =
          IF remote.connect = "ok"
          THEN [worker[w] EXCEPT !.pc = "exec", !.ssh_client = "open"]
          ELSE [Raised(w, remote.connect) EXCEPT !.ssh_client = "open"]]
    /\ UNCHANGED <<env, handler, nInstalls, nPolls, consumed, readers>>

\* lines 601-614: build the command, report "Executing script", exec_command
WorkerExec(w) ==
    /\ w \in Workers
    /\ worker[w].pc = "exec"
    /\ ~LocalStepPending
    /\ files' = Appended(files, worker[w].task_id, ExecutingMsg(worker[w].req.script_name))
    /\ worker' = [worker EXCEPT ![w] =
          IF remote.exec = "ok" THEN [worker[w] EXCEPT !.pc = "readline"]
          ELSE Raised(w, remote.exec)]
    /\ UNCHANGED <<env, handler, nInstalls, nPolls, consumed, readers>>

\* lines 618-624: one more line of output
WorkerReadLine(w) ==
    /\ w \in Workers
    /\ worker[w].pc = "readline"
    /\ ~LocalStepPending
    /\ Len(worker[w].output_buffer) < Len(remote.lines)
    /\ LET line == remote.lines[Len(worker[w].output_buffer) + 1]
       IN  /\ files' = Appended(files, worker[w].task_id, line)
           /\ worker' = [worker EXCEPT ![w].output_buffer = Append(@, line)]
    /\ UNCHANGED <<env, handler, nInstalls, nPolls, consumed, readers>>

\* readline or stderr.read raises once the lines are read
WorkerReadFails(w) ==
    /\ w \in Workers
    /\ worker[w].pc = "readline"
    /\ ~LocalStepPending
    /\ Len(worker[w].output_buffer) = Len(remote.lines)
    /\ remote.read # "ok"
    /\ worker' = [worker EXCEPT ![w] = Raised(w, remote.read)]
    /\ UNCHANGED <<env, files, handler, nInstalls, nPolls, consumed, readers>>

\* lines 619-621: the output has ended; lines 626-632: the rest of stderr, then
\* the exit status
WorkerStderr(w) ==
    /\ w \in Workers
    /\ worker[w].pc = "readline"
    /\ ~LocalStepPending
    /\ Len(worker[w].output_buffer) = Len(remote.lines)
    /\ remote.read = "ok"
    /\ files' = IF remote.error_output # <<>>
                THEN Appended(files, worker[w].task_id, <<"LF">> \o remote.error_output)
                ELSE files
    /\ worker' = [worker EXCEPT ![w].pc = "finalize",
                                ![w].exit_status = remote.exit_status]
    /\ UNCHANGED <<env, handler, nInstalls, nPolls, consumed, readers>>

\* "current_content or ''"
OrEmpty(content) == IF content = None THEN <<>> ELSE content

\* the status and content of the terminal write: lines 637-642 when the try block
\* ended, the except clauses (lines 645-664) when it raised
TerminalStatus(exc, exit_status) ==
    IF exc = "none" /\ exit_status = 0 THEN TASK_STATUS_COMPLETED ELSE TASK_STATUS_ERROR

TerminalContent(exc, exit_status, server_ip, current_content) ==
    IF exc # "none" THEN OrEmpty(current_content) \o ExceptMsg(exc, server_ip, ExcText)
    ELSE IF exit_status # 0 THEN OrEmpty(current_content) \o ExitedMsg(exit_status)
    ELSE OrEmpty(current_content)

\* lines 635, 646, 651, 656, 661: _, current_content = read_task_status(task_id)
WorkerFinalize(w) ==
    /\ w \in Workers
    /\ worker[w].pc = "finalize"
    /\ ~LocalStepPending
    /\ worker' = [worker EXCEPT
          ![w].pc = "write_open",
          ![w].status = TerminalStatus(worker[w].exc, worker[w].exit_status),
          ![w].content = TerminalContent(worker[w].exc, worker[w].exit_status,
                            worker[w].req.server_ip,
                            read_task_status(files[worker[w].task_id]).content)]
    /\ UNCHANGED <<env, files, handler, nInstalls, nPolls, consumed, readers>>

\* write_task_status line 172 for the terminal write: open(task_file, 'w')
WorkerWriteOpen(w) ==
    /\ w \in Workers
    /\ worker[w].pc = "write_open"
    /\ ~LocalStepPending
    /\ files' = Truncated(files, worker[w].task_id)
    /\ worker' = [worker EXCEPT ![w].pc = "write_close", ![w].fh = "open"]
    /\ UNCHANGED <<env, handler, nInstalls, nPolls, consumed, readers>>

\* write_task_status lines 173-174 for the terminal write
WorkerWriteClose(w) ==
    /\ w \in Workers
    /\ worker[w].pc = "write_close"
    /\ ~LocalStepPending
    /\ files' = Flushed(files, worker[w].task_id, worker[w].fh,
                        StatusFileText(worker[w].status, worker[w].content))
    /\ worker' = [worker EXCEPT ![w].pc = "close", ![w].fh = "none"]
    /\ readers' = [readers EXCEPT ![worker[w].task_id] = 0]
    /\ UNCHANGED <<env, handler, nInstalls, nPolls, consumed>>

\* lines 665-667: finally: ssh_client.close(); the thread ends
WorkerClose(w) ==
    /\ w \in Workers
    /\ worker[w].pc = "close"
    /\ worker' = [worker EXCEPT ![w] = EndedWorker(worker[w].task_id, worker[w].req)]
    /\ UNCHANGED <<env, files, handler, nInstalls, nPolls, consumed, readers>>

------------------------------------------------------------------------------

Next ==
    \/ \E t \in Threads :
          \/ \E data \in Requests : InstallStart(t, data)
          \/ InstallWriteOpen(t)
          \/ InstallWriteClose(t)
          \/ \E task_id \in AllTaskIds : StatusStart(t, task_id)
          \/ StatusDeleteExists(t)
          \/ StatusDeleteRemove(t)
          \/ HandlerReturn(t)
    \/ \E w \in WorkerIds :
          \/ WorkerConnect(w)
          \/ WorkerExec(w)
          \/ WorkerReadLine(w)
          \/ WorkerReadFails(w)
          \/ WorkerStderr(w)
          \/ WorkerFinalize(w)
          \/ WorkerWriteOpen(w)
          \/ WorkerWriteClose(w)
          \/ WorkerClose(w)

Spec == Init /\ [][Next]_vars

\* sessions that together take every path of the job's thread but the failures
\* of connect and exec_command
ShortSessions ==
    { Session("ok", "ok", <<<<"o", "k", "CR", "LF">>>>, "TimeoutError", <<>>, 0),
      Session("ok", "ok", <<>>, "ok", <<"e">>, 1) }

\* the server under requests whose password and additional parameters contain ':'
InitFp ==
    /\ pool = ColonRequests
    /\ SSH_AVAILABLE = TRUE
    /\ remote \in ShortSessions
    /\ InitServer
    /\ LimiterOff
    /\ SanitizerIdle
    /\ AuthOff
    /\ CommandIdle
    /\ GuiIdle

SpecFp == InitFp /\ [][Next]_vars

\* the server under requests of which some fail the checks of install()
InitValidation ==
    /\ pool = ValidRequests \cup InvalidRequests
    /\ SSH_AVAILABLE = TRUE
    /\ remote \in ShortSessions
    /\ InitServer
    /\ LimiterOff
    /\ SanitizerIdle
    /\ AuthOff
    /\ CommandIdle
    /\ GuiIdle

SpecValidation == InitValidation /\ [][Next]_vars

\* a client that polls again and again: a GET /api/status/<task_id> that the
\* bound on the calls of a behaviour does not count
KeepPolling(t, task_id) ==
    /\ ~LocalStepPending
    /\ handler[t].op = "idle"
    /\ \A u \in Threads : u < t => handler[u].op # "idle"
    /\ UNCHANGED nPolls
    /\ StatusBody(t, task_id)

\* the steps of request thread t after it has taken up its request
HandlerStep(t) ==
    \/ InstallWriteOpen(t)
    \/ InstallWriteClose(t)
    \/ StatusDeleteExists(t)
    \/ StatusDeleteRemove(t)
    \/ HandlerReturn(t)

\* the steps of the job's thread w
WorkerStep(w) ==
    \/ WorkerConnect(w)
    \/ WorkerExec(w)
    \/ WorkerReadLine(w)
    \/ WorkerReadFails(w)
    \/ WorkerStderr(w)
    \/ WorkerFinalize(w)
    \/ WorkerWriteOpen(w)
    \/ WorkerWriteClose(w)
    \/ WorkerClose(w)

NextLive ==
    \/ \E t \in Threads :
          \/ \E data \in Requests : InstallStart(t, data)
          \/ \E task_id \in AllTaskIds : KeepPolling(t, task_id)
          \/ HandlerStep(t)
    \/ \E w \in WorkerIds : WorkerStep(w)

InitLive ==
    /\ pool = ValidRequests
    /\ SSH_AVAILABLE = TRUE
    /\ remote \in ShortSessions
    /\ InitServer
    /\ LimiterOff
    /\ SanitizerIdle
    /\ AuthOff
    /\ CommandIdle
    /\ GuiIdle

\* the operating system runs every thread that can take a step, every call on
\* the remote session returns or raises (each is part of a step of the job's
\* thread), and the client polls again and again.  Fairness is strong because
\* a step waits while another thread has a step of its own pending
\* (LocalStepPending), which the polls bring about again and again.
SpecLive ==
    /\ InitLive
    /\ [][NextLive]_vars
    /\ \A t \in Threads : SF_vars(HandlerStep(t))
    /\ \A w \in WorkerIds : SF_vars(WorkerStep(w))
    /\ SF_vars(\E t \in Threads, task_id \in AllTaskIds : KeepPolling(t, task_id))

------------------------------------------------------------------------------
(* RateLimiter (src/api/rate_limiter.py).  Every method that takes self._lock *)
(* runs its statements on the database as one step; record_request reads the  *)
(* time before it takes the lock (line 188).                                  *)

\* calls of record_request, of the other methods, and steps of the clock in one
\* behaviour
MaxRecords == 3

MaxAdmin == 2

MaxTicks == 2

\* the largest max_requests a limiter is configured with
MaxLimit == 2

\* time_window=60, the default of __init__ (line 37)
DEFAULT_TIME_WINDOW == 60

\* records older than this are deleted by record_request (line 217)
CLEANUP_AGE == 3600

\* seconds of timedelta(hours=1)
SECONDS_PER_HOUR == 3600

\* the hours of the block record_request sets (line 227)
AUTO_BLOCK_HOURS == 1

\* how far the clock moves in a step
TickSteps == {1, DEFAULT_TIME_WINDOW, SECONDS_PER_HOUR}

\* the (permanent, duration_hours) callers of block_ip pass (0: None or 0)
BlockArgs == {<<TRUE, 0>>, <<FALSE, 0>>, <<FALSE, 1>>}

\* reason='Manual block'
ManualReason == <<"M", "a", "n", "u", "a", "l", " ", "b", "l", "o", "c", "k">>

\* f'Rate limit exceeded: {count} requests in {self.time_window} seconds'
AutoReason(count, time_window) ==
    <<"R", "a", "t", "e", " ", "l", "i", "m", "i", "t", " ", "e", "x", "c", "e", "e",
      "d", "e", "d", ":", " ">> \o DecStr(count)
      \o <<" ", "r", "e", "q", "u", "e", "s", "t", "s", " ", "i", "n", " ">>
      \o DecStr(time_window) \o <<" ", "s", "e", "c", "o", "n", "d", "s">>

\* a row of blocked_ips; blocked_until is <<>> for NULL, <<t>> for the time t
BlockRow(ip_address, reason, blocked_until, is_permanent) ==
    [ip_address |-> ip_address, reason |-> reason, blocked_until |-> blocked_until,
     is_permanent |-> is_permanent]

\* ... FROM blocked_ips WHERE ip_address = ?
RowsOf(rows, ip) == {r \in rows : r.ip_address = ip}

\* cursor.fetchone() of that selection, when it is not empty
Fetched(rows, ip) == CHOOSE r \in RowsOf(rows, ip) : TRUE

\* a variant of Deleted that deletes the rows of every source
DeletedAll(rows, ip) == {}

\* DELETE FROM blocked_ips WHERE ip_address = ?
Deleted(rows, ip) == rows \ RowsOf(rows, ip)

\* a variant of Replaced that inserts the row next to the rows of the source
Inserted(rows, row) == rows \cup {row}

\* INSERT OR REPLACE INTO blocked_ips: ip_address is UNIQUE, the rows that
\* conflict with the new one are deleted
Replaced(rows, row) == Deleted(rows, row.ip_address) \cup {row}

\* _is_blocked_internal (lines 116-152): the block of the row has expired
Expired(row, t) ==
    ~row.is_permanent /\ row.blocked_until # <<>> /\ t > row.blocked_until[1]

\* a variant of is_blocked_internal that finds no source blocked
never_blocked(rows, ip, t) == [is_blocked |-> FALSE, reason |-> None]

\* _is_blocked_internal: the tuple it returns
is_blocked_internal(rows, ip, t) ==
    IF RowsOf(rows, ip) = {} \/ Expired(Fetched(rows, ip), t)
    THEN [is_blocked |-> FALSE, reason |-> None]
    ELSE [is_blocked |-> TRUE, reason |-> Fetched(rows, ip).reason]

\* a variant of AfterBlockCheck that deletes the rows of the source it checks
RowsDropped(rows, ip, t) == Deleted(rows, ip)

\* a variant of AfterBlockCheck that deletes no row
RowsKept(rows, ip, t) == rows

\* _is_blocked_internal: the table it leaves (an expired row is deleted)
AfterBlockCheck(rows, ip, t) ==
    IF RowsOf(rows, ip) # {} /\ Expired(Fetched(rows, ip), t)
    THEN Deleted(rows, ip) ELSE rows

\* a variant of CountSince that leaves out the row inserted last
CountOthers(log, ip, window_start) ==
    Cardinality({i \in 1..(Len(log) - 1) :
                   log[i].ip = ip /\ log[i].timestamp > window_start})

\* SELECT COUNT(*) FROM request_log WHERE ip_address = ? AND timestamp > ?
CountSince(log, ip, window_start) ==
    Cardinality({i \in 1..Len(log) : log[i].ip = ip /\ log[i].timestamp > window_start})

\* DELETE FROM request_log WHERE timestamp < ?
CleanedUp(log, cleanup_time) ==
    SelectSeq(log, LAMBDA r : ~(r.timestamp < cleanup_time))

\* a variant of ExceedsLimit that blocks the request that reaches the maximum
ReachesLimit(count, max_requests) == count >= max_requests

\* line 225: count > self.max_requests
ExceedsLimit(count, max_requests) == count > max_requests

\* a variant of Disabled for methods that do not test self.enabled
NeverDisabled == FALSE

\* `if not self.enabled`, the first statement of every public method
Disabled == ~limiter.enabled

\* lines 185-188: record_request starts: disabled, or the time is read
RecordBegin(c, ip) ==
    /\ caller[c].pc = "idle"
    /\ \A u \in Callers : u < c => caller[u].pc # "idle"
    /\ nRecords < MaxRecords
    /\ nRecords' = nRecords + 1
    /\ IF Disabled
       THEN /\ reply' = Reply("record_request", ip, TRUE, 0, None, {})
            /\ UNCHANGED caller
       ELSE /\ caller' = [caller EXCEPT ![c] =
                 [pc |-> "record", ip |-> ip, current_time |-> now]]
            /\ UNCHANGED reply
    /\ UNCHANGED <<now, limiter, request_log, blocked_ips, nAdmin, nTicks, admitted>>
    /\ UNCHANGED <<SSH_AVAILABLE, files, handler, worker, remote, pool, nInstalls,
                   nPolls, consumed, readers, sanitizerVars, API_KEY, additional_param,
                   command, guiVars>>

\* lines 190-239: record_request under the lock
RecordLocked(ip, current_time) ==
       LET blocked == is_blocked_internal(blocked_ips, ip, now)
           rows == AfterBlockCheck(blocked_ips, ip, now)
           inserted == Append(request_log,
                              [ip |-> ip, timestamp |-> current_time])
           count == CountSince(inserted, ip, current_time - limiter.time_window)
           reason == AutoReason(count, limiter.time_window)
       IN  IF blocked.is_blocked
           THEN /\ reply' = Reply("record_request", ip, FALSE, 0, blocked.reason, {})
                /\ blocked_ips' = rows
                /\ UNCHANGED <<request_log, admitted>>
           ELSE /\ request_log' = CleanedUp(inserted, current_time - CLEANUP_AGE)
                /\ IF ExceedsLimit(count, limiter.max_requests)
                   THEN /\ blocked_ips' = Replaced(rows,
                              BlockRow(ip, reason,
                                       <<now + AUTO_BLOCK_HOURS * SECONDS_PER_HOUR>>,
                                       FALSE))
                        /\ reply' = Reply("record_request", ip, FALSE, count, reason, {})
                        /\ UNCHANGED admitted
                   ELSE /\ blocked_ips' = rows
                        /\ reply' = Reply("record_request", ip, TRUE, count, None, {})
                        /\ admitted' = Append(admitted,
                               [ip |-> ip, timestamp |-> current_time])

\* record_request of a calling thread that has read the time
RecordCommit(c) ==
    /\ caller[c].pc = "record"
    /\ RecordLocked(caller[c].ip, caller[c].current_time)
    /\ caller' = [caller EXCEPT ![c] = IdleCaller]
    /\ UNCHANGED <<now, limiter, nRecords, nAdmin, nTicks>>
    /\ UNCHANGED <<SSH_AVAILABLE, files, handler, worker, remote, pool, nInstalls,
                   nPolls, consumed, readers, sanitizerVars, API_KEY, additional_param,
                   command, guiVars>>

\* is_blocked (lines 154-172)
IsBlocked(ip) ==
    /\ nAdmin < MaxAdmin
    /\ nAdmin' = nAdmin + 1
    /\ IF Disabled
       THEN /\ reply' = Reply("is_blocked", ip, FALSE, 0, None, {})
            /\ UNCHANGED blocked_ips
       ELSE LET blocked == is_blocked_internal(blocked_ips, ip, now)
            IN  /\ reply' = Reply("is_blocked", ip, blocked.is_blocked, 0,
                                  blocked.reason, {})
                /\ blocked_ips' = AfterBlockCheck(blocked_ips, ip, now)
    /\ UNCHANGED <<now, limiter, request_log, caller, nRecords, nTicks, admitted>>
    /\ UNCHANGED <<SSH_AVAILABLE, files, handler, worker, remote, pool, nInstalls,
                   nPolls, consumed, readers, sanitizerVars, API_KEY, additional_param,
                   command, guiVars>>

\* block_ip (lines 241-272)
BlockIp(ip, permanent, duration_hours) ==
    /\ nAdmin < MaxAdmin
    /\ nAdmin' = nAdmin + 1
    /\ IF Disabled
       THEN /\ reply' = Reply("block_ip", ip, FALSE, 0, None, {})
            /\ UNCHANGED blocked_ips
       ELSE LET blocked_until ==
                   IF ~permanent /\ duration_hours # 0
                   THEN <<now + duration_hours * SECONDS_PER_HOUR>> ELSE <<>>
            IN  /\ blocked_ips' = Replaced(blocked_ips,
                                      BlockRow(ip, ManualReason, blocked_until,
                                               permanent))
                /\ reply' = Reply("block_ip", ip, TRUE, 0, None, {})
    /\ UNCHANGED <<now, limiter, request_log, caller, nRecords, nTicks, admitted>>
    /\ UNCHANGED <<SSH_AVAILABLE, files, handler, worker, remote, pool, nInstalls,
                   nPolls, consumed, readers, sanitizerVars, API_KEY, additional_param,
                   command, guiVars>>

\* unblock_ip (lines 274-298)
UnblockIp(ip) ==
    /\ nAdmin < MaxAdmin
    /\ nAdmin' = nAdmin + 1
    /\ IF Disabled
       THEN /\ reply' = Reply("unblock_ip", ip, FALSE, 0, None, {})
            /\ UNCHANGED blocked_ips
       ELSE /\ blocked_ips' = Deleted(blocked_ips, ip)
            /\ reply' = Reply("unblock_ip", ip, RowsOf(blocked_ips, ip) # {}, 0, None,
                               {})
    /\ UNCHANGED <<now, limiter, request_log, caller, nRecords, nTicks, admitted>>
    /\ UNCHANGED <<SSH_AVAILABLE, files, handler, worker, remote, pool, nInstalls,
                   nPolls, consumed, readers, sanitizerVars, API_KEY, additional_param,
                   command, guiVars>>

\* get_blocked_ips (lines 300-318): the rows it returns (their order, by
\* blocked_at, is left out)
get_blocked_ips == IF Disabled THEN {} ELSE blocked_ips

GetBlockedIps ==
    /\ nAdmin < MaxAdmin
    /\ nAdmin' = nAdmin + 1
    /\ reply' = Reply("get_blocked_ips", "", TRUE, 0, None, get_blocked_ips)
    /\ UNCHANGED <<now, limiter, request_log, blocked_ips, caller, nRecords, nTicks,
                   admitted>>
    /\ UNCHANGED <<SSH_AVAILABLE, files, handler, worker, remote, pool, nInstalls,
                   nPolls, consumed, readers, sanitizerVars, API_KEY, additional_param,
                   command, guiVars>>

\* the arguments (ip_address, limit) of get_request_stats: "" for no address
\* (None), limit=100 by default
DEFAULT_STATS_LIMIT == 100

StatsArgs == {<<"", DEFAULT_STATS_LIMIT>>, <<"a", 1>>}

\* SELECT ... FROM request_log [WHERE ip_address = ?]
StatsSelected(log, ip_address) ==
    SelectSeq(log, LAMBDA r : ip_address = "" \/ r.ip = ip_address)

\* ORDER BY timestamp DESC LIMIT ?: the lists the query can return (rows with
\* the same timestamp come in any order)
StatsOrdered(sel, limit) ==
    LET n == Len(sel)
        orders == {f \in [1..n -> 1..n] :
                     /\ \A i, j \in 1..n : f[i] = f[j] => i = j
                     /\ \A i \in 1..n : i < n =>
                           sel[f[i]].timestamp >= sel[f[i + 1]].timestamp}
    IN  {[i \in 1..(IF limit < n THEN limit ELSE n) |-> sel[f[i]]] : f \in orders}

\* get_request_stats (lines 320-353): the lists it can return
get_request_stats(ip_address, limit) ==
    IF Disabled THEN {<<>>}
    ELSE StatsOrdered(StatsSelected(request_log, ip_address), limit)

GetRequestStats(ip_address, limit) ==
    /\ nAdmin < MaxAdmin
    /\ nAdmin' = nAdmin + 1
    /\ \E rows \in get_request_stats(ip_address, limit) :
          reply' = Reply("get_request_stats", ip_address, TRUE, 0, None, rows)
    /\ UNCHANGED <<now, limiter, request_log, blocked_ips, caller, nRecords, nTicks,
                   admitted>>
    /\ UNCHANGED <<SSH_AVAILABLE, files, handler, worker, remote, pool, nInstalls,
                   nPolls, consumed, readers, sanitizerVars, API_KEY, additional_param,
                   command, guiVars>>

\* time passes
Tick(d) ==
    /\ nTicks < MaxTicks
    /\ nTicks' = nTicks + 1
    /\ now' = now + d
    /\ UNCHANGED <<limiter, request_log, blocked_ips, caller, reply, nRecords, nAdmin,
                   admitted>>
    /\ UNCHANGED <<SSH_AVAILABLE, files, handler, worker, remote, pool, nInstalls,
                   nPolls, consumed, readers, sanitizerVars, API_KEY, additional_param,
                   command, guiVars>>

NextLimiter ==
    \/ \E c \in Callers :
          \/ \E ip \in Ips : RecordBegin(c, ip)
          \/ RecordCommit(c)
    \/ \E ip \in Ips :
          \/ IsBlocked(ip)
          \/ \E args \in BlockArgs : BlockIp(ip, args[1], args[2])
          \/ UnblockIp(ip)
    \/ GetBlockedIps
    \/ \E args \in StatsArgs : GetRequestStats(args[1], args[2])
    \/ \E d \in TickSteps : Tick(d)

\* a limiter as the server creates it, and no request to the orchestrator
InitLimiter ==
    /\ limiter \in [enabled : BOOLEAN, max_requests : 1..MaxLimit,
                     time_window : {DEFAULT_TIME_WINDOW}]
    /\ InitTables
    /\ pool = {}
    /\ SSH_AVAILABLE = TRUE
    /\ remote = Session("ok", "ok", <<>>, "ok", <<>>, 0)
    /\ InitServer
    /\ SanitizerIdle
    /\ AuthOff
    /\ CommandIdle
    /\ GuiIdle

SpecLimiter == InitLimiter /\ [][NextLimiter]_vars

------------------------------------------------------------------------------
(* The decorators of the endpoints (src/api/app.py): require_api_key (lines   *)
(* 234-271) and, for /api/install, check_rate_limit (lines 297-326), on a      *)
(* server with a key and a limiter.  require_api_key reads only the request    *)
(* and API_KEY and is taken together with the step after it.                   *)

\* a POST /api/install: the JSON body, the X-API-Key header, the api_key query
\* parameter (None when absent) and the address get_client_ip() returns
Post(data, x_api_key, api_key, client_ip) ==
    [json |-> data.json, script_name |-> data.script_name, server_ip |-> data.server_ip,
     server_root_password |-> data.server_root_password, additional |-> data.additional,
     x_api_key |-> x_api_key, api_key |-> api_key, client_ip |-> client_ip]

\* request.get_json() of a POST: what install() reads of the request
BodyOf(post) ==
    [json |-> post.json, script_name |-> post.script_name, server_ip |-> post.server_ip,
     server_root_password |-> post.server_root_password, additional |-> post.additional]

\* the keys servers are configured with: none, or a key
ApiKeys == {<<>>, <<"k">>}

GatePosts ==
    { Post(data, keys[1], keys[2], keys[3]) :
        data \in ValidRequests,
        keys \in { <<None, None, "a">>, <<(<<"w">>), None, "a">>, <<(<<"k">>), None, "a">>,
                   <<(<<>>), <<"k">>, "b">> } }

\* a GET: the X-API-Key header and the api_key query parameter
Gets == { [x_api_key |-> None, api_key |-> None],
          [x_api_key |-> <<"k">>, api_key |-> None] }

\* the GET requests of a run
MaxGets == 1

\* health (line 1055), index (line 1070), scripts_list (line 351)
Endpoints == {"health", "index", "scripts_list"}

\* the codes the endpoint's function can answer with: scripts_list answers by
\* the state of its data file (lines 369-404)
BodyCodes(endpoint) == IF endpoint = "scripts_list" THEN {200, 403, 404, 500} ELSE {200}

\* a variant of AuthRejection that accepts every request
NoAuthRejection(req) == NoResponse

\* require_api_key (lines 244-268): the 401 response, NoResponse when the
\* request is let through
AuthRejection(req) ==
    IF API_KEY = <<>> THEN NoResponse
    ELSE LET provided_key == IF req.x_api_key \notin {None, <<>>} THEN req.x_api_key
                             ELSE req.api_key
         IN  IF provided_key \in {None, <<>>}
             THEN Response(401, None, "API key is required", None, None)
             ELSE IF provided_key # API_KEY
             THEN Response(401, None, "Invalid API key", None, None)
             ELSE NoResponse

\* POST /api/install arrives: require_api_key, then check_rate_limit up to
\* time.time() in record_request (rate_limiter.py line 188), or install() at
\* once when the limiter is disabled (lines 306-307)
InstallAuth(t, post) ==
    /\ Accepts(t)
    /\ nInstalls < MaxInstalls
    /\ post \in pool
    /\ nInstalls' = nInstalls + 1
    /\ IF AuthRejection(post) # NoResponse
       THEN /\ handler' = [handler EXCEPT ![t] =
                 Returning("install", None, AuthRejection(post))]
            /\ UNCHANGED <<env, files, worker, nPolls, consumed, readers>>
       ELSE IF Disabled
       THEN /\ InstallBody(t, BodyOf(post))
            /\ UNCHANGED env
       ELSE /\ handler' = [handler EXCEPT ![t] =
                 [op |-> "install", pc |-> "record_request", req |-> BodyOf(post),
                  task_id |-> None, fh |-> "none", resp |-> NoResponse]]
            /\ caller' = [caller EXCEPT ![t] =
                 [pc |-> "record", ip |-> post.client_ip, current_time |-> now]]
            /\ UNCHANGED <<now, limiter, request_log, blocked_ips, reply, nRecords,
                           nAdmin, nTicks, admitted>>
            /\ UNCHANGED <<SSH_AVAILABLE, remote, pool, sanitizerVars, API_KEY, additional_param,
                   command, guiVars, files,
                           worker, nPolls, consumed, readers>>

\* check_rate_limit lines 313-323: record_request under its lock; 429 when the
\* request is not allowed
InstallAdmit(t) ==
    /\ handler[t].op = "install"
    /\ handler[t].pc = "record_request"
    /\ ~LocalStepPending
    /\ RecordLocked(caller[t].ip, caller[t].current_time)
    /\ caller' = [caller EXCEPT ![t] = IdleCaller]
    /\ handler' = [handler EXCEPT ![t] =
          IF reply'.ok THEN [@ EXCEPT !.pc = "admitted"]
          ELSE Returning("install", None,
                         Response(429, None, "Access denied", None, None))]
    /\ UNCHANGED <<now, limiter, nRecords, nAdmin, nTicks>>
    /\ UNCHANGED <<SSH_AVAILABLE, remote, pool, sanitizerVars, API_KEY, additional_param,
                   command, guiVars, files, worker,
                   nInstalls, nPolls, consumed, readers>>

\* check_rate_limit line 325: install() is called
InstallAdmitted(t) ==
    /\ handler[t].op = "install"
    /\ handler[t].pc = "admitted"
    /\ ~LocalStepPending
    /\ InstallBody(t, handler[t].req)
    /\ UNCHANGED <<env, nInstalls>>

\* GET /health, / or /api/scripts_list: require_api_key, then the function
PublicGet(t, endpoint, get) ==
    /\ Accepts(t)
    /\ nPolls < MaxGets
    /\ nPolls' = nPolls + 1
    /\ \E code \in BodyCodes(endpoint) :
          handler' = [handler EXCEPT ![t] =
             Returning(endpoint, None,
                       IF AuthRejection(get) # NoResponse THEN AuthRejection(get)
                       ELSE Response(code, None, "", None, None))]
    /\ UNCHANGED <<env, files, worker, nInstalls, consumed, readers>>

NextGate ==
    \/ \E t \in Threads :
          \/ \E post \in GatePosts : InstallAuth(t, post)
          \/ InstallAdmit(t)
          \/ InstallAdmitted(t)
          \/ InstallWriteOpen(t)
          \/ InstallWriteClose(t)
          \/ \E endpoint \in Endpoints, get \in Gets : PublicGet(t, endpoint, get)
          \/ HandlerReturn(t)
    \/ \E w \in WorkerIds :
          \/ WorkerConnect(w)
          \/ WorkerExec(w)
          \/ WorkerReadLine(w)
          \/ WorkerReadFails(w)
          \/ WorkerStderr(w)
          \/ WorkerFinalize(w)
          \/ WorkerWriteOpen(w)
          \/ WorkerWriteClose(w)
          \/ WorkerClose(w)

\* a server with or without a key, its limiter on or off and allowing one
\* request per window; the threads of the server are the callers of the limiter
InitGate ==
    /\ API_KEY \in ApiKeys
    /\ limiter \in [enabled : BOOLEAN, max_requests : {1},
                     time_window : {DEFAULT_TIME_WINDOW}]
    /\ now = 0
    /\ request_log = <<>>
    /\ blocked_ips = {}
    /\ caller = [t \in Threads |-> IdleCaller]
    /\ reply = NoReply
    /\ nRecords = 0
    /\ nAdmin = 0
    /\ nTicks = 0
    /\ admitted = <<>>
    /\ pool = GatePosts
    /\ SSH_AVAILABLE = TRUE
    /\ remote \in ShortSessions
    /\ InitServer
    /\ SanitizerIdle
    /\ CommandIdle
    /\ GuiIdle

SpecGate == InitGate /\ [][NextGate]_vars

------------------------------------------------------------------------------
(* strip_ansi_codes on every text of a bounded length.                        *)

\* the longest text given to strip_ansi_codes
MaxTextLen == 4

\* calls of strip_ansi_codes in a row, each on the result of the one before
MaxPasses == 2

\* the characters of the texts: the ones the pattern of strip_ansi_codes names
\* (ESC, the brackets, a digit, letters, BEL, backslash), a control character
\* it does not name (DEL), tab, line feed, carriage return and a character
\* outside ASCII
TextChars == {"ESC", "[", "]", "0", "m", "c", "BEL", "BSL", "DEL", "TAB", "LF", "CR", "é"}

Texts == UNION {[1..k -> TextChars] : k \in 0..MaxTextLen}

\* strip_ansi_codes(text), or strip_ansi_codes of what the last call returned
Sanitize ==
    /\ Len(sanitized) < MaxPasses
    /\ sanitized' = Append(sanitized,
                      strip_ansi_codes(IF sanitized = <<>> THEN text
                                       ELSE sanitized[Len(sanitized)]))
    /\ UNCHANGED <<text, SSH_AVAILABLE, files, handler, worker, remote, pool,
                   nInstalls, nPolls, consumed, readers, limiterVars, API_KEY,
                   additional_param, command, guiVars>>

NextSanitizer == Sanitize

InitSanitizer ==
    /\ text \in Texts \cup {None}
    /\ sanitized = <<>>
    /\ pool = {}
    /\ SSH_AVAILABLE = TRUE
    /\ remote = Session("ok", "ok", <<>>, "ok", <<>>, 0)
    /\ InitServer
    /\ LimiterOff
    /\ AuthOff
    /\ CommandIdle
    /\ GuiIdle

SpecSanitizer == InitSanitizer /\ [][NextSanitizer]_vars

------------------------------------------------------------------------------
(* Properties of the task orchestrator.                                       *)

\* the status of the record in the task's file, None when there is none
StatusOf(task_id) == read_task_status(files[task_id]).status

\* thread t takes up a call of install() that passes validation
Submits(t) ==
    /\ handler[t].op = "idle"
    /\ handler'[t].op = "install"
    /\ handler'[t].task_id # None

\* C1: an install() called while the record of its task id has the status
\* "processing" answers with that task id and "Task already in progress", leaves
\* the file as it is and starts no thread.
C1_DedupWhileProcessing ==
    [][\A t \in Threads :
          (Submits(t) /\ StatusOf(handler'[t].task_id) = TASK_STATUS_PROCESSING)
          => /\ handler'[t].pc = "return"
             /\ handler'[t].resp =
                   Response(200, handler'[t].task_id, "Task already in progress", None, None)
             /\ files' = files
             /\ worker' = worker]_vars

\* an install() has found its task in progress and is about to say so, with the
\* record processing and the task's one thread running
C1_Witness ==
    \E t \in Threads :
       /\ handler[t].op = "install"
       /\ handler[t].pc = "return"
       /\ handler[t].resp.message = "Task already in progress"
       /\ StatusOf(handler[t].task_id) = TASK_STATUS_PROCESSING
       /\ Cardinality(LiveWorkers(handler[t].task_id)) = 1
\* C2: at every moment at most one thread started by install() is running for
\* a task id, whatever the interleaving of the install() calls for it.
C2_SingleFlight ==
    \A task_id \in TaskIds : Cardinality(LiveWorkers(task_id)) <= 1

\* thread t takes up a call of get_task_status()
Polls(t) == handler[t].op = "idle" /\ handler'[t].op = "status"

\* what get_task_status answers for a record: its status, its content sanitized
Rendered(task_id) ==
    LET r == read_task_status(files[task_id])
    IN  Response(200, None, "", r.status,
                 IF r.content # <<>> THEN strip_ansi_codes(r.content) ELSE r.content)

\* C3: a get_task_status() that finds a terminal record while no thread and no
\* other request runs on the task answers 200 with the record's status and
\* content, and the file is gone when it returns; as long as no install() for
\* the task follows, every get_task_status() starting after that return
\* answers 404.
C3_ConsumeOnceSequential ==
    [][\A t \in Threads :
          /\ (Polls(t) /\ consumed'[handler'[t].task_id] = "polling")
             => handler'[t].resp = Rendered(handler'[t].task_id)
          /\ (handler[t].pc = "return" /\ handler[t].op = "status"
                /\ consumed[handler[t].task_id] = "polling")
             => files[handler[t].task_id] = NoFile
          /\ (Polls(t) /\ consumed[handler'[t].task_id] = "yes")
             => /\ handler'[t].pc = "return"
                /\ handler'[t].resp.code = 404]_vars

\* the second of two polls that follow each other is about to answer 404 after
\* the first has returned the terminal record
C3_Witness ==
    \E t \in Threads :
       /\ handler[t].op = "status"
       /\ handler[t].pc = "return"
       /\ handler[t].resp.code = 404
       /\ consumed[handler[t].task_id] = "yes"
       /\ nPolls = 2

\* C4: of the get_task_status() calls running at once on a terminal record, one
\* reads it and answers with it and the others answer 404: a terminal record
\* is read by at most one call (a call that has read it answers 200 with it,
\* or 500 when the removal fails, never 404).
C4_ConsumeOnceConcurrent ==
    \A task_id \in TaskIds : readers[task_id] <= 1

\* C5: no get_task_status() removes a record whose status is "processing": at
\* the moment a task file is removed the status of its record is not
\* "processing".
C5_NeverRemovesProcessing ==
    [][\A task_id \in TaskIds :
          (files[task_id] # NoFile /\ files'[task_id] = NoFile)
          => StatusOf(task_id) # TASK_STATUS_PROCESSING]_vars

\* C6 as stated: once the status of a record is "completed" or "error", no step
\* changes the file other than by removing it.
C6_TerminalIsFinal ==
    [][\A task_id \in TaskIds :
          IsTerminal(StatusOf(task_id))
          => files'[task_id] = files[task_id] \/ files'[task_id] = NoFile]_vars

\* a step of a get_task_status() call
PollStep ==
    \E t \in Threads :
       handler'[t] # handler[t] /\ (handler[t].op = "status" \/ handler'[t].op = "status")

\* the thread has written its terminal status
HasFinished(w) == worker[w].pc \in {"close", "done"}

\* C6 amended: once the status of a record is "completed" or "error", a
\* get_task_status() leaves the file as it is or removes it, and the thread that
\* wrote the status writes nothing more; an install() with the same parameters
\* does not keep the record: it goes on to write a new "processing" record in
\* its place.
C6_TerminalFinalButForInstall ==
    [][/\ \A task_id \in TaskIds :
             (PollStep /\ IsTerminal(StatusOf(task_id)))
             => files'[task_id] = files[task_id] \/ files'[task_id] = NoFile
       /\ \A w \in Workers :
             HasFinished(w)
             => /\ worker'[w].pc \in {"close", "done"}
                /\ worker'[w] # worker[w] => files' = files
       /\ \A t \in Threads :
             /\ (Submits(t) /\ IsTerminal(StatusOf(handler'[t].task_id)))
                => handler'[t].pc = "write_open"
             /\ (handler[t].pc = "write_close" /\ handler[t].fh = "open"
                   /\ handler'[t].pc = "return")
                => read_task_status(files'[handler[t].task_id]).status
                      = TASK_STATUS_PROCESSING]_vars

\* an install() has read a terminal record that no poll has read and is about
\* to write a new record over it
C6_Witness ==
    \E t \in Threads :
       /\ handler[t].op = "install"
       /\ handler[t].pc = "write_open"
       /\ IsTerminal(StatusOf(handler[t].task_id))
       /\ readers[handler[t].task_id] = 0
       /\ \E w \in Workers : HasFinished(w)

\* C7: requests that differ in a field have different task ids: an install()
\* that has a task id has the parameters of every thread started for that id.
C7_FingerprintInjective ==
    \A t \in Threads, w \in Workers :
       (handler[t].op = "install" /\ handler[t].task_id = worker[w].task_id)
       => handler[t].req = worker[w].req

\* the characters C8 allows in a script identifier
ScriptChars == Letters \cup Digits \cup {"-", "_"}

\* the body names a script and a host, and the script has a character outside
\* ScriptChars or the host fails the pattern of install()
FailsValidation(data) ==
    /\ data.json
    /\ data.script_name # None
    /\ data.server_ip # None
    /\ \/ \E i \in 1..Len(data.script_name) : data.script_name[i] \notin ScriptChars
       \/ ~IpPatternMatch(data.server_ip)

\* C8: an install() whose script name has a character other than letters,
\* digits, '-' and '_', or whose server_ip fails the address pattern, answers
\* 400 without a task id, and its call leaves every task file and the list of
\* started threads as they were.
C8_InvalidRequestRejected ==
    [][\A t \in Threads :
          (handler[t].op = "idle" /\ handler'[t].op = "install"
              /\ FailsValidation(handler'[t].req))
          => /\ handler'[t].pc = "return"
             /\ handler'[t].resp.code = 400
             /\ handler'[t].resp.task_id = None
             /\ files' = files
             /\ worker' = worker]_vars

\* an install() is about to answer 400 for a script name with ';' while a job
\* is running
C8_Witness ==
    \E t \in Threads :
       /\ handler[t].op = "install"
       /\ handler[t].pc = "return"
       /\ FailsValidation(handler[t].req)
       /\ handler[t].resp.message = "Invalid script_name format"
       /\ \E task_id \in TaskIds : StatusOf(task_id) = TASK_STATUS_PROCESSING

\* sanitize(c1) + ... + sanitize(cn)
RECURSIVE SanitizedConcat(_)
SanitizedConcat(chunks) ==
    IF chunks = <<>> THEN <<>>
    ELSE strip_ansi_codes(Head(chunks)) \o SanitizedConcat(Tail(chunks))

\* the job of the behaviour's only install() has been started and its thread
\* has not taken a step
JustStarted ==
    nInstalls = 1 /\ Len(worker) = 1 /\ worker[1].pc = "connect"

\* the thread of the behaviour's only install() has just written "completed"
\* after a session that ended with exit status 0
JustCompleted ==
    /\ nInstalls = 1 /\ Len(worker) = 1 /\ worker[1].pc = "close"
    /\ remote.connect = "ok" /\ remote.exec = "ok" /\ remote.read = "ok"
    /\ remote.exit_status = 0

ReportBeforeEnd(req) ==
    strip_ansi_codes(StartingMsg(req.script_name, req.server_ip))
      \o strip_ansi_codes(ConnectingMsg(req.server_ip, SSH_DEFAULT_PORT))
      \o strip_ansi_codes(ExecutingMsg(req.script_name))
      \o SanitizedConcat(remote.lines)
      \o (IF remote.error_output # <<>>
          THEN strip_ansi_codes(<<"LF">> \o remote.error_output) ELSE <<>>)

------------------------------------------------------------------------------
(* Properties of the rate limiter.                                            *)

\* caller c's record_request returns in this step
Records(c) == caller[c].pc = "record" /\ caller'[c].pc = "idle"

RateLimitExceeded ==
    <<"R", "a", "t", "e", " ", "l", "i", "m", "i", "t", " ", "e", "x", "c", "e", "e",
      "d", "e", "d">>

\* C10: a record_request for a source that is not blocked and has n requests
\* logged in the window is allowed and returns the count n + 1 as long as
\* n + 1 <= max_requests (so max_requests calls in a row from an empty window
\* return 1, 2, .., max_requests), and is denied with the count n + 1 and a
\* reason that begins with 'Rate limit exceeded' once n + 1 > max_requests,
\* after which get_blocked_ips lists the source.
C10_StrictThreshold ==
    [][\A c \in Callers :
          (Records(c) /\ ~is_blocked_internal(blocked_ips, caller[c].ip, now).is_blocked)
          => LET ip == caller[c].ip
                 n == CountSince(request_log, ip,
                                 caller[c].current_time - limiter.time_window)
             IN  IF n + 1 <= limiter.max_requests
                 THEN reply' = Reply("record_request", ip, TRUE, n + 1, None, {})
                 ELSE /\ reply'.op = "record_request"
                      /\ reply'.ip = ip
                      /\ ~reply'.ok
                      /\ reply'.count = n + 1
                      /\ StartsWith(reply'.reason, RateLimitExceeded)
                      /\ RowsOf(get_blocked_ips', ip) # {}]_vars

\* the call after max_requests allowed calls of a source has been denied with
\* the count max_requests + 1, the call before it was allowed, and the
\* source is listed as blocked
C10_Witness ==
    /\ reply.op = "record_request"
    /\ ~reply.ok
    /\ reply.count = limiter.max_requests + 1
    /\ limiter.max_requests = MaxLimit
    /\ CountSince(request_log, reply.ip, now - limiter.time_window) = reply.count
    /\ RowsOf(get_blocked_ips, reply.ip) # {}
    /\ nAdmin = 0

\* the calls of record_request of the source that returned allowed
Admitted(ip) == {i \in 1..Len(admitted) : admitted[i].ip = ip}

\* C11: of the calls of record_request of one source that an enabled limiter
\* with an empty log receives within one window, in any interleaving of the
\* calling threads, at most max_requests return allowed.
C11_AtomicAdmission ==
    (limiter.enabled /\ now < limiter.time_window)
    => \A ip \in Ips : Cardinality(Admitted(ip)) <= limiter.max_requests

\* MaxLimit calls of a source were allowed and one more was denied with the
\* count MaxLimit + 1, all within one window; the call denied had read the
\* time before a call that was allowed did, so the two ran at once
C11_Witness ==
    /\ limiter.enabled
    /\ limiter.max_requests = MaxLimit
    /\ now < limiter.time_window
    /\ reply.op = "record_request"
    /\ ~reply.ok
    /\ reply.count = MaxLimit + 1
    /\ Cardinality(Admitted(reply.ip)) = MaxLimit
    /\ Len(request_log) = MaxLimit + 1
    /\ request_log[MaxLimit + 1].timestamp < request_log[MaxLimit].timestamp
    /\ nAdmin = 0

\* a block entry that is permanent, or temporary with a deadline not yet passed
LiveBlock(row, t) ==
    row.is_permanent \/ (row.blocked_until # <<>> /\ ~(t > row.blocked_until[1]))

\* C12: a record_request of a source that has a live block entry is denied
\* with the count 0 and the stored reason, whatever the number of its requests
\* in the window, and leaves the request log and the block table as they were.
C12_BlockedIsDenied ==
    [][\A c \in Callers :
          (Records(c) /\ \E row \in RowsOf(blocked_ips, caller[c].ip) : LiveBlock(row, now))
          => /\ \E row \in RowsOf(blocked_ips, caller[c].ip) :
                   reply' = Reply("record_request", caller[c].ip, FALSE, 0, row.reason, {})
             /\ request_log' = request_log
             /\ blocked_ips' = blocked_ips]_vars

\* a source with no request in the log and a live manual block has been denied
\* with the reason of the block, and nothing was logged
C12_Witness ==
    /\ reply.op = "record_request"
    /\ ~reply.ok
    /\ reply.count = 0
    /\ reply.reason = ManualReason
    /\ \E row \in RowsOf(blocked_ips, reply.ip) : LiveBlock(row, now)
    /\ CountSince(request_log, reply.ip, now - limiter.time_window) = 0
    /\ nRecords = 1

\* a temporary block entry whose deadline has passed
DeadlinePassed(row, t) ==
    ~row.is_permanent /\ row.blocked_until # <<>> /\ t > row.blocked_until[1]

\* is_blocked(ip) of an enabled limiter returns in this step
IsBlockedReturns(ip) ==
    /\ limiter.enabled
    /\ nAdmin' = nAdmin + 1
    /\ reply'.op = "is_blocked"
    /\ reply'.ip = ip

\* C13: a lookup (record_request or is_blocked) that finds a temporary block
\* entry whose deadline has passed deletes the entry and goes on as for a
\* source that is not blocked (is_blocked returns (False, None); record_request
\* logs and counts the request); a lookup that finds a permanent entry reports
\* the source blocked with the stored reason and leaves the table as it is.
C13_LazyExpiry ==
    [][/\ \A ip \in Ips : IsBlockedReturns(ip) =>
             \A row \in RowsOf(blocked_ips, ip) :
                /\ DeadlinePassed(row, now) =>
                      /\ reply' = Reply("is_blocked", ip, FALSE, 0, None, {})
                      /\ RowsOf(blocked_ips', ip) = {}
                /\ row.is_permanent =>
                      /\ reply' = Reply("is_blocked", ip, TRUE, 0, row.reason, {})
                      /\ blocked_ips' = blocked_ips
       /\ \A c \in Callers : Records(c) =>
             \A row \in RowsOf(blocked_ips, caller[c].ip) :
                /\ DeadlinePassed(row, now) =>
                      LET n == CountSince(request_log, caller[c].ip,
                                          caller[c].current_time - limiter.time_window)
                      IN  /\ row \notin blocked_ips'
                          /\ reply'.count = n + 1
                          /\ reply'.ok = (n + 1 <= limiter.max_requests)
                          /\ \E i \in 1..Len(request_log') :
                                request_log'[i] = [ip |-> caller[c].ip,
                                                   timestamp |-> caller[c].current_time]
                /\ row.is_permanent =>
                      /\ reply' = Reply("record_request", caller[c].ip, FALSE, 0,
                                        row.reason, {})
                      /\ blocked_ips' = blocked_ips]_vars

\* a source was allowed once, then denied and blocked by the limiter, and more
\* than an hour later its next request found the block expired, deleted it and
\* was allowed
C13_Witness ==
    /\ limiter.enabled
    /\ nAdmin = 0
    /\ nRecords = MaxRecords
    /\ \A c \in Callers : caller[c].pc = "idle"
    /\ Len(admitted) = MaxRecords - 1
    /\ reply.op = "record_request"
    /\ reply.ok
    /\ Cardinality(Admitted(reply.ip)) = MaxRecords - 1
    /\ now > AUTO_BLOCK_HOURS * SECONDS_PER_HOUR
    /\ RowsOf(blocked_ips, reply.ip) = {}

\* C14: every block entry that is not permanent has a deadline (the time of the
\* block_ip call plus its duration), so there is a time after which a lookup
\* treats the source as not blocked - also after block_ip with no duration or
\* with the duration 0.
C14_NonPermanentExpires ==
    \A row \in blocked_ips : ~row.is_permanent => row.blocked_until # <<>>

\* the method op of an enabled limiter, called for ip, returns in this step
AdminReturns(op, ip) ==
    /\ limiter.enabled
    /\ nAdmin' = nAdmin + 1
    /\ reply'.op = op
    /\ reply'.ip = ip

\* C15: after block_ip(s) the list of get_blocked_ips has exactly one row of
\* s, also when s had a row before; after unblock_ip(s) it has none, and
\* unblock_ip returns whether s had a row: True after a block, False for a
\* source with no row, in which case the tables are left as they were. No
\* step leaves two rows of one source.
C15_BlockUnblockRoundTrip ==
    [][\A ip \in Ips :
          /\ AdminReturns("block_ip", ip) =>
                /\ reply'.ok
                /\ Cardinality(RowsOf(get_blocked_ips', ip)) = 1
          /\ AdminReturns("unblock_ip", ip) =>
                /\ RowsOf(get_blocked_ips', ip) = {}
                /\ reply'.ok = (RowsOf(blocked_ips, ip) # {})
                /\ RowsOf(blocked_ips, ip) = {} =>
                      (blocked_ips' = blocked_ips /\ request_log' = request_log)
          /\ Cardinality(RowsOf(blocked_ips', ip)) <= 1]_vars

\* a source was blocked by block_ip and then unblocked: unblock_ip returned
\* True and the list has no row of it
C15_Witness ==
    /\ limiter.enabled
    /\ nRecords = 0
    /\ nAdmin = 2
    /\ reply = Reply("unblock_ip", reply.ip, TRUE, 0, None, {})
    /\ RowsOf(get_blocked_ips, reply.ip) = {}

\* the requests of the source in the log that a call of record_request reading
\* the time t or later can count
InWindow(log, ip, t) ==
    SelectSeq(log, LAMBDA r : r.ip = ip /\ r.timestamp > t - limiter.time_window)

\* record_request, block_ip or unblock_ip for the source returns in this step
OperatesOn(ip) ==
    \/ \E c \in Callers : Records(c) /\ caller[c].ip = ip
    \/ AdminReturns("block_ip", ip)
    \/ AdminReturns("unblock_ip", ip)

C17_DisabledPassThrough ==
    [][~limiter.enabled =>
          /\ request_log' = request_log
          /\ blocked_ips' = blocked_ips
          /\ \A c \in Callers : caller'[c].pc = "idle"
          /\ nRecords' # nRecords =>
                \E ip \in Ips : reply' = Reply("record_request", ip, TRUE, 0, None, {})
          /\ nAdmin' # nAdmin =>
                /\ reply'.op \in {"block_ip", "unblock_ip"} => ~reply'.ok
                /\ reply'.op = "get_blocked_ips" => reply'.rows = {}
                /\ reply'.op = "get_request_stats" => reply'.rows = <<>>]_vars

\* a disabled limiter has answered MaxRecords calls of record_request and a
\* call of another method, and its tables are empty
C17_Witness ==
    /\ ~limiter.enabled
    /\ nRecords = MaxRecords
    /\ nAdmin > 0
    /\ reply.op = "record_request"
    /\ reply.ok
    /\ reply.count = 0
    /\ request_log = <<>>
    /\ blocked_ips = {}

------------------------------------------------------------------------------
(* Properties of the sanitizer.                                               *)

\* C18: strip_ansi_codes is idempotent: a second call, on the result of the
\* first, returns that result unchanged.
C18_SanitizerIdempotent ==
    Len(sanitized) >= 2 => sanitized[2] = sanitized[1]

\* the C0 control characters other than tab, line feed and carriage return,
\* and DEL, among the characters of the texts
ControlChars == {"NUL", "BEL", "BS", "VT", "FF", "ESC", "DEL"}

\* C19: what strip_ansi_codes returns has no C0 control character other than
\* tab, line feed and carriage return, and no DEL.
C19_NoControlsLeft ==
    Len(sanitized) >= 1 =>
       \A i \in 1..Len(sanitized[1]) : sanitized[1][i] \notin ControlChars

\* C20: strip_ansi_codes returns a text of printable characters (also outside
\* ASCII), tabs, line feeds and carriage returns as it is, and returns the
\* empty text and None as themselves.
C20_IdentityOnClean ==
    (/\ Len(sanitized) >= 1
     /\ \A i \in 1..Len(text) : text[i] \in (TextChars \ ControlChars) \cup {"None"})
    => sanitized[1] = text

\* a text with a character outside ASCII, a tab and a line feed has been
\* returned as it is
C20_Witness ==
    /\ text = <<"é", "TAB", "c", "LF">>
    /\ sanitized = <<text>>

------------------------------------------------------------------------------
(* C21, C26: the decorators of the endpoints, under SpecGate.                 *)

\* the request carries the key of the server, in its X-API-Key header or, with
\* no such header, in its api_key query parameter
HasKey(req) ==
    \/ req.x_api_key = API_KEY
    \/ req.x_api_key \in {None, <<>>} /\ req.api_key = API_KEY

\* C21: with API_KEY set, a POST /api/install without the key is answered 401
\* and nothing else happens, and one with the key in its header or its query
\* parameter is not answered 401; GET /health, / and /api/scripts_list are
\* never answered 401, with or without a key; with API_KEY empty no request
\* is answered 401.
C21_KeyOnlyForSubmit ==
    [][\A t \in Threads :
         /\ \A post \in GatePosts :
              InstallAuth(t, post) =>
                 IF API_KEY # <<>> /\ ~HasKey(post)
                 THEN /\ handler'[t].resp.code = 401
                      /\ UNCHANGED <<files, worker, request_log, blocked_ips, caller>>
                 ELSE handler'[t].resp.code # 401
         /\ \A endpoint \in Endpoints, get \in Gets :
              PublicGet(t, endpoint, get) => handler'[t].resp.code # 401]_vars

\* the part of C21 about /api/install alone
C21_SubmitNeedsKey ==
    [][\A t \in Threads, post \in GatePosts :
          InstallAuth(t, post) =>
             IF API_KEY # <<>> /\ ~HasKey(post)
             THEN /\ handler'[t].resp.code = 401
                  /\ UNCHANGED <<files, worker, request_log, blocked_ips, caller>>
             ELSE handler'[t].resp.code # 401]_vars

\* the thread starts the body of install() in this step: it returns one of the
\* responses of the body or opens the task file
EntersBody(t) ==
    /\ handler[t].pc \notin {"write_open", "write_close", "return"}
    /\ handler'[t].op = "install"
    /\ \/ handler'[t].pc = "write_open"
       \/ handler'[t].pc = "return" /\ handler'[t].resp.code \notin {401, 429}

\* C26: on POST /api/install authentication comes first, then the admission
\* check, then the body of install(): a request without the key returns 401
\* with the request log, the block entries and the calls of the limiter
\* unchanged; with the limiter enabled a thread reaches the admission check only
\* with the key, starts the body only after record_request allowed the request,
\* and a request record_request denies returns 429 in a step that leaves the
\* task files and the workers unchanged, the thread having touched neither
\* before.
C26_GateOrder ==
    [][\A t \in Threads :
         /\ \A post \in GatePosts :
              InstallAuth(t, post) =>
                 /\ ~HasKey(post) /\ API_KEY # <<>> =>
                       /\ handler'[t].pc = "return"
                       /\ handler'[t].resp.code = 401
                       /\ UNCHANGED <<request_log, blocked_ips, caller, reply, files, worker>>
                 /\ ~Disabled => UNCHANGED <<files, worker, request_log, blocked_ips>>
                 /\ ~Disabled /\ (HasKey(post) \/ API_KEY = <<>>) =>
                       handler'[t].pc = "record_request"
         /\ handler'[t].pc = "record_request" /\ handler[t].pc # "record_request" =>
               \E post \in GatePosts :
                  InstallAuth(t, post) /\ (HasKey(post) \/ API_KEY = <<>>)
         /\ handler[t].pc = "record_request" /\ handler'[t] # handler[t] =>
               /\ UNCHANGED <<files, worker>>
               /\ IF reply'.ok
                  THEN /\ handler'[t].pc = "admitted"
                       /\ request_log' # request_log
                  ELSE /\ handler'[t].pc = "return"
                       /\ handler'[t].resp.code = 429
         /\ handler'[t].resp.code = 429 => handler[t].pc \in {"record_request", "return"}
         /\ ~Disabled /\ EntersBody(t) => handler[t].pc = "admitted"
         /\ handler'[t].pc = "admitted" /\ handler[t].pc # "admitted" =>
               handler[t].pc = "record_request" /\ reply'.ok]_vars

\* a server with a key has admitted the first request of a source with the key
\* and started its task, and denies the second request of that source with 429
C26_Witness ==
    /\ API_KEY # <<>>
    /\ nInstalls = 2
    /\ \E t \in Threads : handler[t].resp.code = 429
    /\ Workers # {}
    /\ blocked_ips # {}

------------------------------------------------------------------------------
(* C22 - C25: polls and the job's thread, under Spec.                         *)

\* a thread of the task is running and no install() is at work on the task
WorkerAlone(task_id) ==
    /\ LiveWorkers(task_id) # {}
    /\ \A u \in Threads : handler[u].op = "install" => handler[u].task_id # task_id

\* C22: a get_task_status() that runs while the job's thread appends to the
\* record or writes its terminal status does not see a record half written: it
\* does not answer 404 while the task's file exists, and it answers with a
\* terminal status only once a thread of the task has finished its terminal
\* write.
C22_NoTornReads ==
    [][\A t \in Threads :
          (Polls(t) /\ WorkerAlone(handler'[t].task_id)) =>
             /\ files[handler'[t].task_id] # NoFile => handler'[t].resp.code # 404
             /\ (handler'[t].resp.code = 200 /\ IsTerminal(handler'[t].resp.status))
                => \E w \in Workers :
                      worker[w].task_id = handler'[t].task_id /\ HasFinished(w)]_vars

\* C23: when the output of the command has ended without an exception, the
\* thread's terminal write leaves the record "completed" with the content the
\* record had, if the exit status is 0, and "error" with that content followed
\* by "\nScript exited with status <n>" otherwise: what it is about to write
\* when it truncates the file is what the file holds, and what the record
\* reads after the write is what it wrote.  A thread ends only after its
\* terminal write and writes nothing after it.
C23_Finalisation ==
    [][\A w \in Workers :
         /\ (worker[w].pc = "write_open" /\ worker'[w].pc = "write_close"
               /\ worker[w].exc = "none")
            => LET acc == OrEmpty(read_task_status(files[worker[w].task_id]).content)
               IN  IF worker[w].exit_status = 0
                   THEN /\ worker[w].status = TASK_STATUS_COMPLETED
                        /\ worker[w].content = acc
                   ELSE /\ worker[w].status = TASK_STATUS_ERROR
                        /\ worker[w].content = acc \o ExitedMsg(worker[w].exit_status)
         /\ (worker[w].pc = "write_close" /\ worker'[w].pc = "close"
               /\ worker[w].exc = "none")
            => read_task_status(files'[worker[w].task_id]) =
                  [status |-> worker[w].status, content |-> worker[w].content]
         /\ (worker'[w].pc = "close" /\ worker[w].pc # "close")
            => worker[w].pc = "write_close"
         /\ (HasFinished(w) /\ worker'[w] # worker[w]) => files' = files]_vars

\* C23 for a thread that is the only one started for its task and runs while
\* no install() is at work on the task
C23_FinalisationAlone ==
    [][\A w \in Workers :
         (/\ \A v \in Workers : worker[v].task_id = worker[w].task_id => v = w
          /\ WorkerAlone(worker[w].task_id)) =>
         /\ (worker[w].pc = "write_open" /\ worker'[w].pc = "write_close"
               /\ worker[w].exc = "none")
            => LET acc == OrEmpty(read_task_status(files[worker[w].task_id]).content)
               IN  IF worker[w].exit_status = 0
                   THEN /\ worker[w].status = TASK_STATUS_COMPLETED
                        /\ worker[w].content = acc
                   ELSE /\ worker[w].status = TASK_STATUS_ERROR
                        /\ worker[w].content = acc \o ExitedMsg(worker[w].exit_status)
         /\ (worker[w].pc = "write_close" /\ worker'[w].pc = "close"
               /\ worker[w].exc = "none")
            => read_task_status(files'[worker[w].task_id]) =
                  [status |-> worker[w].status, content |-> worker[w].content]
         /\ (worker'[w].pc = "close" /\ worker[w].pc # "close")
            => worker[w].pc = "write_close"
         /\ (HasFinished(w) /\ worker'[w] # worker[w]) => files' = files]_vars

\* the thread is the only one started for its task and no install() is at work
\* on the task
OnlyWorker(w) ==
    /\ \A v \in Workers : worker[v].task_id = worker[w].task_id => v = w
    /\ WorkerAlone(worker[w].task_id)

\* what C24 says of thread w in a step: after an exception of connect,
\* exec_command or a read of the streams, what the thread is about to write
\* when it truncates the file is "error" with the content the file holds
\* followed by the message of the exception, and the record reads so after the
\* write
FailureReported(w) ==
    /\ (worker[w].pc = "write_open" /\ worker'[w].pc = "write_close"
          /\ worker[w].exc # "none")
       => /\ worker[w].status = TASK_STATUS_ERROR
          /\ worker[w].content =
                OrEmpty(read_task_status(files[worker[w].task_id]).content)
                   \o ExceptMsg(worker[w].exc, worker[w].req.server_ip, ExcText)
    /\ (worker[w].pc = "write_close" /\ worker'[w].pc = "close"
          /\ worker[w].exc # "none")
       => read_task_status(files'[worker[w].task_id]) =
             [status |-> TASK_STATUS_ERROR, content |-> worker[w].content]
    /\ (worker[w].exc = "none" /\ worker'[w].exc # "none")
       => /\ worker'[w].pc = "finalize"
          /\ handler' = handler

\* C24: every exception of connect, exec_command and the reads of the streams
\* ends in the thread: the thread goes to its except clause, the requests being
\* handled are not affected, and the record becomes "error" with the content it
\* had followed by the message of the exception; the install() that starts a
\* thread answers 200 "Installation started" whatever the session does.
C24_FailuresBecomeError ==
    [][/\ \A w \in Workers : FailureReported(w)
       /\ \A t \in Threads :
             (handler[t].pc = "write_close" /\ handler'[t].pc = "return")
             => handler'[t].resp.code = 200]_vars

\* C24 for the threads that are the only ones of their tasks
C24_FailuresBecomeErrorAlone ==
    [][/\ \A w \in Workers : OnlyWorker(w) => FailureReported(w)
       /\ \A t \in Threads :
             (handler[t].pc = "write_close" /\ handler'[t].pc = "return")
             => handler'[t].resp.code = 200]_vars

\* an install() is answering "Installation started" for the task: it has written
\* the record and started the job's thread
Accepted(task_id) ==
    \E t \in Threads :
       /\ handler[t].op = "install"
       /\ handler[t].pc = "return"
       /\ handler[t].task_id = task_id
       /\ handler[t].resp.code = 200
       /\ handler[t].resp.message = "Installation started"

\* C25: with every thread scheduled, every call on the remote session
\* returning or raising, and the client polling again and again, each install()
\* that answers "Installation started" is followed by a state in which the
\* record of its task has the status "completed" or "error" (the status the
\* polling client is to receive).
C25_JobEnds ==
    \A data \in ValidRequests :
       Accepted(TaskIdOf(data))
          ~> IsTerminal(read_task_status(FileOf(files, TaskIdOf(data))).status)

\* ---------------------------------------------------------------------------
\* The command line of the remote shell (execute_script_via_ssh_async lines
\* 601-608, execute_script_via_ssh lines 517-525, SSHWorker.run lines 262-269)
\* on every 'additional' of a bounded length
\* ---------------------------------------------------------------------------

\* the characters of 'additional': a letter, a blank, the single quote, the
\* double quote ("DQ"), ';', '$' and the backslash ("BSL")
AdditionalChars == {"a", " ", "'", "DQ", ";", "$", "BSL"}

MaxAdditionalLen == 4

Additionals == UNION {[1..k -> AdditionalChars] : k \in 0..MaxAdditionalLen}

\* a variant of escaped_additional that replaces nothing
NotEscaped(additional) == additional

\* additional.replace("'", "'\"'\"'")
RECURSIVE escaped_additional(_)
escaped_additional(additional) ==
    IF additional = <<>> THEN <<>>
    ELSE (IF Head(additional) = "'" THEN <<"'", "DQ", "'", "DQ", "'">>
          ELSE <<Head(additional)>>)
         \o escaped_additional(Tail(additional))

\* f"curl -fsSL -o- {script_url} | bash": the words and blanks of the command
\* up to the shell that runs the script
CommandHead(script_name) ==
    <<"curl", " ", "-fsSL", " ", "-o-", " ", "SCRIPTS_BASE_URL/", script_name, ".sh",
      " ", "|", " ", "bash">>

\* lines 604-608: the command given to exec_command
Command(script_name, additional) ==
    IF additional # <<>>
    THEN CommandHead(script_name) \o <<" ", "-s", " ", "--", " ", "'">>
         \o escaped_additional(additional) \o <<"'">>
    ELSE CommandHead(script_name)

\* escape_shell_args of src/experiments/test_escape_shell_args.py: the
\* arguments the tests expect, each token of additional.split() escaped and
\* quoted on its own, joined by blanks
RECURSIVE escape_shell_args(_)
escape_shell_args(additional) ==
    LET start == FirstNotIn(additional, 1, Whitespace)
        end == FirstIn(additional, start, Whitespace)
        rest == escape_shell_args(Drop(additional, end))
    IN  IF start > Len(additional) THEN <<>>
        ELSE <<"'">> \o escaped_additional(SubSeq(additional, start, end - 1)) \o <<"'">>
             \o (IF rest = <<>> THEN <<>> ELSE <<" ">> \o rest)

\* the command is built for the script "d"
BuildCommand ==
    /\ command = None
    /\ command' = Command("d", additional_param)
    /\ UNCHANGED <<additional_param, SSH_AVAILABLE, files, handler, worker, remote, pool,
                   nInstalls, nPolls, consumed, readers, limiterVars, sanitizerVars,
                   API_KEY, guiVars>>

InitCommand ==
    /\ additional_param \in Additionals
    /\ command = None
    /\ pool = {}
    /\ SSH_AVAILABLE = TRUE
    /\ remote = Session("ok", "ok", <<>>, "ok", <<>>, 0)
    /\ InitServer
    /\ LimiterOff
    /\ SanitizerIdle
    /\ AuthOff
    /\ GuiIdle

SpecCommand == InitCommand /\ [][BuildCommand]_vars

\* ---------------------------------------------------------------------------
\* The server when the output of the remote command comes in two lines
\* (stdout.readline, lines 617-624) with escape sequences in them
\* ---------------------------------------------------------------------------

\* sessions of two lines: an OSC sequence (ESC ] .. BEL) with a line feed in
\* it, which readline splits (and then the end of the output or a failure of
\* the next read); a line of escape characters followed by a plain line; two
\* lines with whole CSI sequences
SplitSessions ==
    { Session("ok", "ok", << <<"ESC", "]", "LF">>, <<"BEL", "o", "k", "LF">> >>,
              "TimeoutError", <<>>, 0) }
    \cup
    { Session("ok", "ok", ls, "ok", <<>>, 0) :
        ls \in { << <<"ESC", "]", "LF">>, <<"BEL", "o", "k", "LF">> >>,
                 << <<"ESC", "ESC", "ESC", "c", "c", "c", "LF">>, <<"o", "k", "LF">> >>,
                 << <<"ESC", "[", "0", "m", "x", "LF">>, <<"o", "ESC", "[", "m", "k", "LF">> >> } }

InitSplit ==
    /\ pool = ValidRequests
    /\ SSH_AVAILABLE = TRUE
    /\ remote \in SplitSessions
    /\ InitServer
    /\ LimiterOff
    /\ SanitizerIdle
    /\ AuthOff
    /\ CommandIdle
    /\ GuiIdle

SpecSplit == InitSplit /\ [][Next]_vars

\* ---------------------------------------------------------------------------
\* The rate limiter configured with RATE_LIMIT_TIME_WINDOW (src/api/app.py line
\* 65) longer than the age at which record_request deletes rows
\* ---------------------------------------------------------------------------

\* RATE_LIMIT_TIME_WINDOW=7200
LONG_TIME_WINDOW == 2 * SECONDS_PER_HOUR

InitLongWindow ==
    /\ limiter = [enabled |-> TRUE, max_requests |-> 1, time_window |-> LONG_TIME_WINDOW]
    /\ InitTables
    /\ pool = {}
    /\ SSH_AVAILABLE = TRUE
    /\ remote = Session("ok", "ok", <<>>, "ok", <<>>, 0)
    /\ InitServer
    /\ SanitizerIdle
    /\ AuthOff
    /\ CommandIdle
    /\ GuiIdle

SpecLongWindow == InitLongWindow /\ [][NextLimiter]_vars

\* ---------------------------------------------------------------------------
\* The server under requests that name the hosts of Hosts, and the check of
\* the desktop client (MainWindow.validate_ip, src/gui/main.py lines 568-575)
\* ---------------------------------------------------------------------------

\* int(octet): the text without the whitespace around it, read as a decimal
\* number (the texts given are digits and whitespace)
RECURSIVE IntOf(_)
IntOf(octet) ==
    LET t == Strip(octet)
        digit == CHOOSE n \in 0..9 : DecStr(n) = <<t[Len(t)]>>
    IN  IF Len(t) = 1 THEN digit ELSE 10 * IntOf(SubSeq(t, 1, Len(t) - 1)) + digit

\* ip.split('.')
RECURSIVE SplitDots(_)
SplitDots(ip) ==
    LET dot == FirstIn(ip, 1, {"."})
    IN  IF dot > Len(ip) THEN <<ip>>
        ELSE <<SubSeq(ip, 1, dot - 1)>> \o SplitDots(Drop(ip, dot + 1))

\* MainWindow.validate_ip
validate_ip(ip) ==
    /\ IpPatternMatch(ip)
    /\ \A i \in 1..Len(SplitDots(ip)) : IntOf(SplitDots(ip)[i]) \in 0..255

InitHosts ==
    /\ pool \in { ValidRequests \cup {data} : data \in HostRequests }
    /\ SSH_AVAILABLE = TRUE
    /\ remote \in ShortSessions
    /\ InitServer
    /\ LimiterOff
    /\ SanitizerIdle
    /\ AuthOff
    /\ CommandIdle
    /\ GuiIdle

SpecHosts == InitHosts /\ [][Next]_vars

\* ---------------------------------------------------------------------------
\* The desktop client: SSHWorker.run (src/gui/main.py lines 233-318) in its
\* own thread, and the main thread in on_stop_clicked, request_stop and
\* on_installation_finished.  The statements between two calls of the SSH
\* client are one step of the worker.  The signals reach the slots of the
\* window through the event queue of the main thread, so the slot runs some
\* time after the emit.
\* ---------------------------------------------------------------------------

\* lines of output a script writes at most
MaxLines == 2

\* what the host does: the outcome of connect, the lines the script writes,
\* whether it then ends or goes on running without output, what it wrote to
\* stderr and its exit status
Scripts ==
    [connect : {"ok", "AuthenticationException", "TimeoutError"},
     lines : 0..MaxLines,
     hangs : BOOLEAN,
     error_output : BOOLEAN,
     exit_status : ExitStatuses]

\* pyqtSignal emits
Output(what) == [signal |-> "output_received", success |-> FALSE, message |-> what]
StatusChanged(what) == [signal |-> "status_changed", success |-> FALSE, message |-> what]
Finished(success, message) ==
    [signal |-> "finished_signal", success |-> success, message |-> message]

\* SSHWorker.__init__ and the window after on_install_clicked has started it
NewSSHWorker ==
    [pc |-> "run", stop_requested |-> FALSE, ssh_client |-> "none", read |-> 0,
     checked |-> FALSE, stopper |-> "idle", worker |-> "set", stop_button |-> TRUE,
     handled |-> 0]

\* the exit status when the connection was closed before the host sent one
NO_EXIT_STATUS == 0 - 1

\* a variant of StopSeen in which the worker never looks at the flag
StopNeverSeen(g) == FALSE

\* if self._stop_requested:
StopSeen(g) == g.stop_requested

\* what the desktop client leaves as it is
notGui == <<SSH_AVAILABLE, files, handler, worker, remote, pool, nInstalls, nPolls,
            consumed, readers, limiterVars, sanitizerVars, API_KEY, additional_param,
            command>>

\* the finished signals emitted so far
FinishedSignals == { i \in 1..Len(signals) : signals[i].signal = "finished_signal" }

\* lines 235-245: the import check, the client object, the first two emits
GuiRun ==
    /\ gui.pc = "run"
    /\ IF ~SSH_AVAILABLE
       THEN /\ signals' = Append(signals, Finished(FALSE, "SSH library (paramiko) is not installed"))
            /\ gui' = [gui EXCEPT !.pc = "done"]
       ELSE /\ signals' = signals \o <<StatusChanged("Connecting"), Output("Connecting")>>
            /\ gui' = [gui EXCEPT !.pc = "connect", !.ssh_client = "created"]
    /\ UNCHANGED <<script, notGui>>

\* lines 248-256: connect; a close() of the main thread while it runs can
\* make it raise SSHException
GuiConnect ==
    /\ gui.pc = "connect"
    /\ \/ /\ script.connect = "ok"
          /\ gui' = [gui EXCEPT !.pc = "connected", !.ssh_client = "connected"]
          /\ UNCHANGED signals
       \/ /\ script.connect # "ok"
          /\ signals' = Append(signals, Finished(FALSE, script.connect))
          /\ gui' = [gui EXCEPT !.pc = "finally"]
       \/ /\ gui.ssh_client = "closed"
          /\ signals' = Append(signals, Finished(FALSE, "SSHException"))
          /\ gui' = [gui EXCEPT !.pc = "finally"]
    /\ UNCHANGED <<script, notGui>>

\* lines 258-260 and, inside the loop, lines 279-281
GuiCheckStop ==
    /\ gui.pc \in {"connected", "loop"}
    /\ IF StopSeen(gui)
       THEN /\ signals' = Append(signals, Finished(FALSE, "Stopped by user"))
            /\ gui' = [gui EXCEPT !.pc = "finally", !.checked = gui.stop_requested]
       ELSE /\ gui' = [gui EXCEPT !.pc = IF gui.pc = "connected" THEN "exec" ELSE "readline",
                                  !.checked = gui.stop_requested]
            /\ UNCHANGED signals
    /\ UNCHANGED <<script, notGui>>

\* lines 263-275: the command, two emits, exec_command; on a client that was
\* closed exec_command raises
GuiExec ==
    /\ gui.pc = "exec"
    /\ IF gui.ssh_client = "closed"
       THEN /\ signals' = signals \o <<Output("Executing script"), Output("rule"),
                                       Finished(FALSE, "Unexpected error")>>
            /\ gui' = [gui EXCEPT !.pc = "finally"]
       ELSE /\ signals' = signals \o <<Output("Executing script"), Output("rule")>>
            /\ gui' = [gui EXCEPT !.pc = "loop"]
    /\ UNCHANGED <<script, notGui>>

\* lines 283-289: readline returns the next line, or the empty text when the
\* script has ended and all its lines were read, or when the channel was
\* closed and nothing is left in its buffer; otherwise it waits
GuiReadLine ==
    /\ gui.pc = "readline"
    /\ \/ /\ gui.read < script.lines
          /\ signals' = Append(signals, Output("line"))
          /\ gui' = [gui EXCEPT !.pc = "loop", !.read = gui.read + 1]
       \/ /\ \/ gui.read = script.lines /\ ~script.hangs
             \/ gui.ssh_client = "closed"
          /\ gui' = [gui EXCEPT !.pc = "stderr"]
          /\ UNCHANGED signals
    /\ UNCHANGED <<script, notGui>>

\* what recv_exit_status can return to the worker
ReceivedExitStatuses ==
    (IF gui.read = script.lines /\ ~script.hangs THEN {script.exit_status} ELSE {})
    \cup (IF gui.ssh_client = "closed" THEN {NO_EXIT_STATUS} ELSE {})

\* lines 292-303: stderr, the exit status, the finished signal.  The exit
\* status is the script's when the script has ended and the host's message
\* has arrived, and -1 when the channel was closed before that.
GuiExitStatus ==
    /\ gui.pc = "stderr"
    /\ \E exit_status \in ReceivedExitStatuses :
          signals' = signals
                     \o (IF script.error_output /\ gui.read = script.lines
                         THEN <<Output("error_output")>> ELSE <<>>)
                     \o <<IF exit_status # 0
                          THEN Finished(FALSE, "Script exited with status")
                          ELSE Finished(TRUE, "Installation completed successfully")>>
    /\ gui' = [gui EXCEPT !.pc = "finally"]
    /\ UNCHANGED <<script, notGui>>

\* lines 313-318
GuiFinally ==
    /\ gui.pc = "finally"
    /\ gui' = [gui EXCEPT !.pc = "done",
                          !.ssh_client = IF gui.ssh_client = "none" THEN "none" ELSE "closed"]
    /\ UNCHANGED <<signals, script, notGui>>

\* on_stop_clicked (line 640-641) and the first statement of request_stop
\* (line 226); the stop button can be clicked while it is enabled
OnStopClicked ==
    /\ gui.stop_button /\ gui.stopper = "idle"
    /\ gui.worker = "set"
    /\ gui' = [gui EXCEPT !.stop_requested = TRUE, !.stopper = "close"]
    /\ UNCHANGED <<signals, script, notGui>>

\* the rest of request_stop (lines 227-231) and of on_stop_clicked (line 642)
RequestStopClose ==
    /\ gui.stopper = "close"
    /\ gui' = [gui EXCEPT !.stopper = "done", !.stop_button = FALSE,
                          !.ssh_client = IF gui.ssh_client = "none" THEN "none" ELSE "closed"]
    /\ UNCHANGED <<signals, script, notGui>>

\* on_installation_finished (lines 656-668), the slot of finished_signal: the
\* main thread runs it for a signal it has not handled yet, between two of
\* its other handlers
OnInstallationFinished ==
    /\ gui.stopper # "close"
    /\ gui.handled < Cardinality(FinishedSignals)
    /\ gui' = [gui EXCEPT !.handled = gui.handled + 1, !.worker = "none",
                          !.stop_button = FALSE]
    /\ UNCHANGED <<signals, script, notGui>>

\* the steps of SSHWorker.run
SSHWorkerStep ==
    \/ GuiRun
    \/ GuiConnect
    \/ GuiCheckStop
    \/ GuiExec
    \/ GuiReadLine
    \/ GuiExitStatus
    \/ GuiFinally

NextGui ==
    \/ GuiRun
    \/ GuiConnect
    \/ GuiCheckStop
    \/ GuiExec
    \/ GuiReadLine
    \/ GuiExitStatus
    \/ GuiFinally
    \/ OnStopClicked
    \/ RequestStopClose
    \/ OnInstallationFinished

InitGui ==
    /\ gui = NewSSHWorker
    /\ signals = <<>>
    /\ script \in Scripts
    /\ pool = {}
    /\ SSH_AVAILABLE \in BOOLEAN
    /\ remote = Session("ok", "ok", <<>>, "ok", <<>>, 0)
    /\ InitServer
    /\ LimiterOff
    /\ SanitizerIdle
    /\ AuthOff
    /\ CommandIdle

SpecGui == InitGui /\ [][NextGui]_vars

\* the thread of the worker is scheduled again and again, and the main thread
\* goes on with a handler it has begun
SpecGuiLive ==
    /\ InitGui
    /\ [][NextGui]_vars
    /\ WF_vars(SSHWorkerStep)
    /\ WF_vars(RequestStopClose)

\* ---------------------------------------------------------------------------
\* C30: get_blocked_ips and the sources that are denied, under SpecLimiter
\* ---------------------------------------------------------------------------

\* the source has a row in the list that get_blocked_ips() returned
Listed(rows, ip) == \E row \in rows : row.ip_address = ip

\* C30: whenever get_blocked_ips() returns, a source is in the returned list if
\* and only if record_request() from that source at that time would be denied
\* because of its row of blocked_ips (the limiter is enabled and
\* _is_blocked_internal finds the source blocked); no expired row is listed.
C30_ListIsCurrent ==
    [][GetBlockedIps
       => \A ip \in Ips :
             Listed(reply'.rows, ip)
             <=> (~Disabled /\ is_blocked_internal(blocked_ips, ip, now).is_blocked)]_vars

\* C30 without the expired rows: every source that would be denied is listed,
\* and every listed source has a row that is permanent or has not expired
C30_ListHoldsBlocked ==
    [][GetBlockedIps
       => \A ip \in Ips :
             /\ (~Disabled /\ is_blocked_internal(blocked_ips, ip, now).is_blocked)
                => Listed(reply'.rows, ip)
             /\ Listed(reply'.rows, ip)
                => (~Disabled /\ RowsOf(blocked_ips, ip) # {})]_vars

\* ---------------------------------------------------------------------------
\* C28, C29: the arguments of the remote shell, under SpecCommand
\* ---------------------------------------------------------------------------

\* the text of the command after "bash -s -- ", empty when the command ends
\* with "bash"
ArgsOf(cmd) == Drop(cmd, Len(CommandHead("d")) + 6)

\* the command has been built
Built == command # None

\* C28: the command built from an 'additional' with k >= 1 whitespace-separated
\* tokens passes, after "bash -s --", the k tokens, each escaped and wrapped in
\* its own pair of single quotes (what escape_shell_args returns); the command
\* built from an empty 'additional' ends with "bash" and passes no argument.
C28_TokensQuotedApart ==
    Built =>
       /\ escape_shell_args(additional_param) # <<>>
          => command = CommandHead("d") \o <<" ", "-s", " ", "--", " ">>
                       \o escape_shell_args(additional_param)
       /\ additional_param = <<>> => command = CommandHead("d")

\* C28 for an 'additional' without whitespace, and for the empty one
C28_OneTokenQuoted ==
    (Built /\ \A i \in 1..Len(additional_param) : additional_param[i] \notin Whitespace)
    => command = IF additional_param = <<>> THEN CommandHead("d")
                 ELSE CommandHead("d") \o <<" ", "-s", " ", "--", " ">>
                      \o escape_shell_args(additional_param)

\* POSIX shell quoting (Shell Command Language, 2.2 Quoting) applied to the
\* text s from position i on. q is the quoting in force ("none", "single",
\* "double"), words the words completed, cur the word in progress when open,
\* bare the number of characters met outside single quotes that are neither
\* blanks, quotation marks nor literal inside double quotes: unquoted
\* characters, and '$' and backslash inside double quotes.
RECURSIVE ShellParse(_, _, _, _, _, _, _)
ShellParse(s, i, q, words, cur, open, bare) ==
    IF i > Len(s)
    THEN [words |-> IF open THEN Append(words, cur) ELSE words,
          closed |-> q = "none", bare |-> bare]
    ELSE
    IF q = "single"
    THEN IF s[i] = "'" THEN ShellParse(s, i + 1, "none", words, cur, TRUE, bare)
         ELSE ShellParse(s, i + 1, "single", words, Append(cur, s[i]), TRUE, bare)
    ELSE
    IF q = "double"
    THEN IF s[i] = "DQ" THEN ShellParse(s, i + 1, "none", words, cur, TRUE, bare)
         ELSE IF s[i] = "BSL" /\ i < Len(s) /\ s[i + 1] \in {"$", "DQ", "BSL"}
         THEN ShellParse(s, i + 2, "double", words, Append(cur, s[i + 1]), TRUE, bare + 1)
         ELSE IF s[i] = "$"
         THEN ShellParse(s, i + 1, "double", words, cur, TRUE, bare + 1)
         ELSE ShellParse(s, i + 1, "double", words, Append(cur, s[i]), TRUE, bare)
    ELSE
    IF s[i] \in Whitespace
    THEN ShellParse(s, i + 1, "none", IF open THEN Append(words, cur) ELSE words,
                    <<>>, FALSE, bare)
    ELSE IF s[i] = "'" THEN ShellParse(s, i + 1, "single", words, cur, TRUE, bare)
    ELSE IF s[i] = "DQ" THEN ShellParse(s, i + 1, "double", words, cur, TRUE, bare)
    ELSE IF s[i] = "BSL"
    THEN IF i < Len(s)
         THEN ShellParse(s, i + 2, "none", words, Append(cur, s[i + 1]), TRUE, bare + 1)
         ELSE ShellParse(s, i + 1, "none", words, cur, open, bare + 1)
    ELSE IF s[i] \in {";", "$", "|"}
    THEN ShellParse(s, i + 1, "none", IF open THEN Append(words, cur) ELSE words,
                    <<>>, FALSE, bare + 1)
    ELSE ShellParse(s, i + 1, "none", words, Append(cur, s[i]), TRUE, bare + 1)

\* the parse of the arguments of the command
Parsed(cmd) == ShellParse(ArgsOf(cmd), 1, "none", <<>>, <<>>, FALSE, 0)

\* a token: a non-empty text without whitespace
IsToken(t) == t # <<>> /\ \A i \in 1..Len(t) : t[i] \notin Whitespace

\* C29: the arguments of the command built from a token t (a non-empty text
\* without whitespace over a letter, the single quote, the double quote, ';',
\* '$' and the backslash) parse, by the quoting rules of the POSIX shell, to
\* exactly one word, which is t; every quotation is closed and no character of
\* t is outside quotes.
C29_QuotingRoundTrip ==
    (Built /\ IsToken(additional_param))
    => /\ Parsed(command).words = <<additional_param>>
       /\ Parsed(command).closed
       /\ Parsed(command).bare = 0

\* a command has been built from a token with a single quote, a double quote,
\* a ';', a '$' or a backslash in it
C29_Witness ==
    /\ Built
    /\ IsToken(additional_param)
    /\ \E i \in 1..Len(additional_param) : additional_param[i] = "'"
    /\ \E i \in 1..Len(additional_param) : additional_param[i] \in {"DQ", ";", "$", "BSL"}
    /\ Parsed(command).words = <<additional_param>>

\* ---------------------------------------------------------------------------
\* C27: the output stored and returned, under SpecSplit
\* ---------------------------------------------------------------------------

\* the text is a fixed point of the sanitizer
Sanitized(content) == content = None \/ strip_ansi_codes(content) = content

\* the output of every task record is a fixed point of the sanitizer
C27_StoredSanitized ==
    \A task_id \in TaskIds : Sanitized(read_task_status(files[task_id]).content)

\* the output of every response of get_task_status is a fixed point of the
\* sanitizer
C27_ReturnedSanitized ==
    \A t \in Threads : handler[t].op = "status" => Sanitized(handler[t].resp.result)

\* C27: in every reachable state the output of every task record, written by
\* install() and by the job's thread, and the output of every response of
\* get_task_status are fixed points of strip_ansi_codes, also when readline
\* splits an escape sequence into two lines that are sanitized and appended
\* one by one.
C27_OutputSanitized == C27_StoredSanitized /\ C27_ReturnedSanitized

\* C27 for the sequence that readline splits: the record never holds the two
\* halves of the OSC sequence one after the other
C27_SplitSequenceNotStored ==
    \A task_id \in TaskIds :
       remote.lines[1] = <<"ESC", "]", "LF">>
       => Sanitized(read_task_status(files[task_id]).content)

\* ---------------------------------------------------------------------------
\* C36: the SSH client of the job's thread, under Spec
\* ---------------------------------------------------------------------------

\* C36: on every path of execute_script_via_ssh_async a thread that has ended
\* has closed the client it created, and close() is called only by a thread
\* that holds an open client and has made its terminal write (its status is
\* "completed" or "error" and the file is closed again).
C36_ClientClosedAfterTerminalWrite ==
    [][\A w \in 1..Len(worker') :
          /\ worker'[w].pc = "done" => worker'[w].ssh_client = "closed"
          /\ (w \in Workers /\ worker[w].ssh_client # "closed"
                /\ worker'[w].ssh_client = "closed")
             => /\ worker[w].pc = "close"
                /\ worker[w].ssh_client = "open"
                /\ IsTerminal(worker[w].status)
                /\ worker[w].fh = "none"]_vars

\* threads have ended with their clients closed after a failure of connect, of
\* exec_command or of a read, or after the script has exited with a status
\* other than 0
C36_Witness ==
    /\ \E w \in Workers : worker[w].pc = "done" /\ worker[w].ssh_client = "closed"
    /\ \/ remote.connect # "ok"
       \/ remote.exec # "ok"
       \/ remote.read # "ok"
       \/ remote.exit_status # 0

\* ---------------------------------------------------------------------------
\* C32: the record of a running job, under Spec
\* ---------------------------------------------------------------------------

\* an install() has started a job for the task and has returned, and the job's
\* thread is running or no poll has read the terminal record it wrote
AwaitingResult(task_id) ==
    /\ \E w \in Workers : worker[w].task_id = task_id
    /\ \A t \in Threads : ~(handler[t].op = "install" /\ handler[t].task_id = task_id)
    /\ (LiveWorkers(task_id) # {} \/ readers[task_id] = 0)

\* C32, first part: from the return of the install() that started a job until
\* a poll reads the job's terminal record, no poll of the task answers 404
\* "Task not found".
C32_NoNotFoundWhileRunning ==
    [][\A t \in Threads :
          (Polls(t) /\ AwaitingResult(handler'[t].task_id))
          => handler'[t].resp.code # 404]_vars

\* C32, second part: what the thread of a job whose session ran to its end
\* reads back for its terminal write begins with everything install() and the
\* thread wrote (as a text-mode read returns it), so no output is lost.
C32_NoOutputLost ==
    [][\A w \in Workers :
          (worker[w].pc = "finalize" /\ worker'[w].pc = "write_open"
             /\ worker[w].exc = "none")
          => StartsWith(worker'[w].content,
                        UniversalNewlines(ReportBeforeEnd(worker[w].req)))]_vars

\* C32: under every interleaving of install(), get_task_status() and the steps
\* of the job's thread, the record of a started job stays visible until a poll
\* has returned its terminal status, and nothing the thread appended is lost.
C32_RunningRecordVisible ==
    [][/\ \A t \in Threads :
             (Polls(t) /\ AwaitingResult(handler'[t].task_id))
             => handler'[t].resp.code # 404
       /\ \A w \in Workers :
             (worker[w].pc = "finalize" /\ worker'[w].pc = "write_open"
                /\ worker[w].exc = "none")
             => StartsWith(worker'[w].content,
                        UniversalNewlines(ReportBeforeEnd(worker[w].req)))]_vars

\* C32 for a job that no other request and no other thread of the same task
\* accompanies: polls of other tasks and jobs of other tasks do not disturb it
C32_VisibleWhenAlone ==
    [][/\ \A t \in Threads :
             (/\ Polls(t)
              /\ AwaitingResult(handler'[t].task_id)
              /\ LiveWorkers(handler'[t].task_id) # {}
              /\ \A w \in LiveWorkers(handler'[t].task_id) :
                    OnlyWorker(w) /\ worker[w].pc \notin {"write_close"}
              /\ readers[handler'[t].task_id] = 0
              /\ \A u \in Threads \ {t} : handler[u].task_id # handler'[t].task_id)
             => handler'[t].resp.code # 404]_vars

\* C32, first part, for polls that read while no thread has the file open for
\* writing
C32_NoNotFoundOutsideWrites ==
    [][\A t \in Threads :
          (/\ Polls(t)
           /\ AwaitingResult(handler'[t].task_id)
           /\ files[handler'[t].task_id] # <<>>
           /\ \A w \in Workers : worker[w].fh = "none"
           /\ \A u \in Threads : handler[u].fh = "none")
          => handler'[t].resp.code # 404]_vars

\* ---------------------------------------------------------------------------
\* C33 - C35: the window and the blocks of the rate limiter, under SpecLimiter
\* ---------------------------------------------------------------------------

\* the calls of record_request from the source of the i-th allowed call that
\* returned allowed with a timestamp in the window of length time_window that
\* ends at the timestamp of the i-th
AllowedInWindow(i) ==
    {j \in Admitted(admitted[i].ip) :
        /\ admitted[j].timestamp > admitted[i].timestamp - limiter.time_window
        /\ admitted[j].timestamp <= admitted[i].timestamp}

\* C33: under every interleaving of record_request with block_ip, unblock_ip,
\* is_blocked and the expiry of blocks, for every source and every instant at
\* most max_requests calls of record_request from the source have returned
\* allowed with a timestamp inside the window of length time_window that ends
\* at the instant.
C33_WindowBound ==
    \A i \in 1..Len(admitted) : Cardinality(AllowedInWindow(i)) <= limiter.max_requests

\* C33 for calls that enter the lock with the time they have just read
C33_WindowBoundFreshTime ==
    (\A i \in 1..Len(request_log) : \A j \in 1..Len(request_log) :
        i < j => request_log[i].timestamp <= request_log[j].timestamp)
    => \A i \in 1..Len(admitted) :
          Cardinality(AllowedInWindow(i)) <= limiter.max_requests

\* C35: the DELETE of old rows inside record_request never removes a row whose
\* timestamp lies inside the window of length time_window that ends now, the
\* window in which the rows of every source are counted, so that the count
\* returned is the number of requests logged for the source within the window,
\* whatever the configured length of the window.
C35_CleanupKeepsWindow ==
    [][\A i \in 1..Len(request_log) :
          request_log[i].timestamp > now - limiter.time_window
          => \E j \in 1..Len(request_log') : request_log'[j] = request_log[i]]_vars

\* C34: while blocked_ips holds a permanent row of a source, every step other
\* than an unblock_ip or a block_ip of that source leaves the row as it is
\* (no record_request, automatic block or check of the deadline replaces or
\* deletes it), and every record_request of the source returns denied with the
\* reason stored in the row and a count of 0.
C34_PermanentBlockStays ==
    [][\A ip \in Ips : \A row \in RowsOf(blocked_ips, ip) :
          row.is_permanent
          => /\ ~(/\ nAdmin' # nAdmin
                  /\ reply'.op \in {"block_ip", "unblock_ip"}
                  /\ reply'.ip = ip)
                => RowsOf(blocked_ips', ip) = {row}
             /\ \A c \in Callers :
                   (caller[c].pc = "record" /\ caller[c].ip = ip /\ caller'[c].pc = "idle")
                   => reply' = Reply("record_request", ip, FALSE, 0, row.reason, {})]_vars

\* a source is blocked permanently, an hour or more has passed, and a
\* record_request of the source has just been denied with the stored reason
C34_Witness ==
    /\ now >= SECONDS_PER_HOUR
    /\ reply.op = "record_request"
    /\ ~reply.ok
    /\ \E row \in RowsOf(blocked_ips, reply.ip) :
          row.is_permanent /\ reply.reason = row.reason

\* ---------------------------------------------------------------------------
\* C37: the hosts install() accepts, under SpecHosts
\* ---------------------------------------------------------------------------

\* a dotted quad: four fields of one to three decimal digits, each in 0..255,
\* separated by dots, and nothing else
IsIPv4(host) ==
    /\ Len(SplitDots(host)) = 4
    /\ \A i \in 1..4 :
          /\ Len(SplitDots(host)[i]) \in 1..3
          /\ \A k \in 1..Len(SplitDots(host)[i]) : SplitDots(host)[i][k] \in Digits
          /\ IntOf(SplitDots(host)[i]) \in 0..255

\* install() is called with a body that names a script, a host and a password
\* and does not answer that the host is invalid
HostAccepted(t) ==
    /\ handler[t].op = "idle"
    /\ handler'[t].op = "install"
    /\ handler'[t].resp.message # "Invalid server_ip format"

\* C37: install() accepts the host of a request if and only if the host is a
\* dotted quad of four decimal fields in 0..255 with nothing before or after
\* it, and if and only if validate_ip of the desktop client accepts it.
C37_OnlyIPv4Accepted ==
    [][\A t \in Threads :
          (handler[t].op = "idle" /\ handler'[t].op = "install")
          => /\ HostAccepted(t) <=> IsIPv4(handler'[t].req.server_ip)
             /\ HostAccepted(t) <=> validate_ip(handler'[t].req.server_ip)]_vars

\* C37, the direction that holds: every dotted quad with fields in 0..255 is
\* accepted by install() and by validate_ip, and every host install() rejects
\* is rejected by validate_ip
C37_IPv4Accepted ==
    [][\A t \in Threads :
          (handler[t].op = "idle" /\ handler'[t].op = "install")
          => /\ IsIPv4(handler'[t].req.server_ip)
                => (HostAccepted(t) /\ validate_ip(handler'[t].req.server_ip))
             /\ validate_ip(handler'[t].req.server_ip) => HostAccepted(t)]_vars

\* C37 between the two clients only: install() and validate_ip accept the
\* same hosts
C37_SameAsDesktop ==
    [][\A t \in Threads :
          (handler[t].op = "idle" /\ handler'[t].op = "install")
          => (HostAccepted(t) <=> validate_ip(handler'[t].req.server_ip))]_vars

\* validate_ip accepts only dotted quads with fields in 0..255 and nothing
\* before or after them
C37_DesktopOnlyIPv4 ==
    [][\A t \in Threads :
          (handler[t].op = "idle" /\ handler'[t].op = "install")
          => (validate_ip(handler'[t].req.server_ip)
                => IsIPv4(handler'[t].req.server_ip))]_vars

\* ---------------------------------------------------------------------------
\* C31: stopping the SSHWorker of the desktop client, under SpecGuiLive
\* ---------------------------------------------------------------------------

\* the step emits finished_signal(True, ...)
ReportsSuccess ==
    \E i \in (Len(signals) + 1)..Len(signals') :
        signals'[i].signal = "finished_signal" /\ signals'[i].success

\* finished_signal is emitted at most once, and once when run() has left
\* its body
FinishedOnce ==
    /\ Cardinality(FinishedSignals) <= 1
    /\ gui.pc \in {"finally", "done"} <=> Cardinality(FinishedSignals) = 1

\* no output_received follows a finished_signal
NoOutputAfterFinished ==
    \A i \in FinishedSignals : \A j \in (i + 1)..Len(signals) :
        signals[j].signal # "output_received"

\* C31, as stated, its third part: once request_stop() has set the flag the
\* worker emits no finished_signal(True, ...).
C31_NoSuccessAfterStop == [][ReportsSuccess => ~gui.stop_requested]_vars

\* C31, as stated, its other parts: after request_stop() the worker
\* eventually terminates, it emits finished_signal exactly once, and it emits
\* no output_received after its finished_signal.
C31_StopsOnceAndSilent ==
    /\ gui.stop_requested ~> gui.pc = "done"
    /\ [](FinishedOnce /\ NoOutputAfterFinished)

\* C31, amended: after request_stop() the worker eventually terminates; it
\* emits finished_signal exactly once and no output_received after it; and it
\* reports success only if the flag was not set when it last looked at it
\* and the script had ended with exit status 0 with all its lines read.
C31_StopsUnlessAlreadyDone ==
    /\ gui.stop_requested ~> gui.pc = "done"
    /\ [](FinishedOnce /\ NoOutputAfterFinished)
    /\ [][ReportsSuccess
          => /\ ~gui.checked
             /\ gui.read = script.lines /\ ~script.hangs /\ script.exit_status = 0]_vars

\* reachable: the stop was requested while the script, which goes on running
\* without output, had written a line; the worker has ended and its one
\* signal of the end says it was stopped or that the script did not exit 0
C31_Witness ==
    /\ gui.stop_requested /\ gui.stopper = "done"
    /\ gui.pc = "done" /\ gui.read >= 1 /\ script.hangs
    /\ \E i \in FinishedSignals : ~signals[i].success

\* reachable: success is reported although the stop was requested before
C31_SuccessAfterStop ==
    /\ gui.stop_requested /\ gui.stopper = "done" /\ gui.pc = "stderr"
    /\ script.exit_status = 0 /\ gui.read = script.lines /\ ~script.hangs

==============================================================================
